---- MODULE Spec2Model ----
(***************************************************************************)
(* tspawn: the shared cell A<T> (an Arc<RwLock<T>> with parking_lot's      *)
(* reader/writer lock) and the tspawn! launch macro, as a state machine.   *)
(*                                                                         *)
(* Execution contexts are the launching caller (context 0, the future      *)
(* driven by the runtime's block_on) and the spawned tasks (1..NumTasks).  *)
(***************************************************************************)
EXTENDS Integers, Sequences, FiniteSets, TLC

\* ------------------------------------------------------------------ bounds
NumCells == 2
NumTasks == 2
MaxVal == 3
MaxVars == 2
MaxWorkers == 2
MaxIncr == 2
MaxCalls == 1
MaxTokens == 5

Alloc == 1..(NumCells + 1)      \* Arc allocations; one is spare for A::new
Cells == 1..NumCells            \* the cells the caller constructs first
Names == 1..(NumCells + 1)      \* variable names in a context's scope
Tasks == 1..NumTasks
Caller == 0
Ctx == {Caller} \cup Tasks
Val == 0..MaxVal
NoTask == 0

VARIABLES
    value,      \* [Alloc -> Val]        the T inside each RwLock<T>
    strong,     \* [Alloc -> Nat]        Arc strong count (0: not allocated)
    readers,    \* [Alloc -> Nat]        shared locks held on the RwLock
    wbit,       \* [Alloc -> BOOLEAN]    the lock's WRITER bit
    env,        \* [Ctx -> [Names -> Binding]]  what each name is bound to
    call,       \* [Ctx -> Call]         the A<T> method a context is inside
    st,         \* [Ctx -> status]       scheduling state of each context
    launch,     \* the caller's tspawn! expansion in progress
    sched,      \* the runtime: flavor and number of worker threads
    committed,  \* [Alloc -> Val]        value left by the last completed writer
    initial,    \* [Alloc -> Val]        value the cell was constructed with
    done        \* [Ctx -> Nat]          get/set/update calls the context completed

vars == <<value, strong, readers, wbit, env, call, st, launch, sched,
          committed, initial, done>>

\* ---------------------------------------------------------------- bindings
Unbound == [kind |-> "unbound", a |-> 0, src |-> 0]
Handle(a, s) == [kind |-> "handle", a |-> a, src |-> s]
ReadGuard(a, s) == [kind |-> "read", a |-> a, src |-> s]
WriteGuard(a, s) == [kind |-> "write", a |-> a, src |-> s]
EmptyEnv == [n \in Names |-> Unbound]

Idle == [op |-> "idle", a |-> 0, stage |-> "none", arg |-> 0, left |-> 0, tmp |-> 0]
\* No tspawn! in progress. Otherwise: the task slot, the clone list and lock
\* list still to run, the bindings of the expansion's block, the variable
\* list as written, the names the body refers to, and the steps performed.
\* For a call site given as raw tokens: the tokens and the parser's outcome.
NoLaunch == [active |-> FALSE, t |-> NoTask, clones |-> <<>>, locks |-> <<>>,
             scope |-> EmptyEnv, waiting |-> FALSE, vs |-> <<>>, uses |-> {},
             trace |-> <<>>, input |-> <<>>, parsed |-> "pending"]

\* ------------------------------------------------- the lock (parking_lot)
\* read_arc()/read(): a shared lock is granted while the WRITER bit is clear.
\* (a read lock that is granted while a writer has the WRITER bit)
CanLockSharedAlways(a) == TRUE

\* (a read lock that is granted to one reader at a time)
CanLockSharedAlone(a) == ~wbit[a] /\ readers[a] = 0

CanLockShared(a) == ~wbit[a]

\* write_arc()/write(): the WRITER bit is taken while it is clear; the
\* guard is returned once the readers have drained.
\* (a write lock that is granted although another writer has the WRITER bit)
CanLockExclusiveAlways(a) == TRUE

CanLockExclusive(a) == ~wbit[a]

\* (a write lock that does not wait for the readers to leave)
DrainedAlways(a) == TRUE

Drained(a) == readers[a] = 0

\* A context that is on a thread and not inside a call or a launch.
Free(c) ==
    /\ st[c] = "run"
    /\ call[c] = Idle
    /\ (c = Caller => ~launch.active)

InCall(c, op, stage) == call[c].op = op /\ call[c].stage = stage

\* ------------------------------------------------------------ A::new
New(c, m, v) ==
    /\ Free(c)
    /\ env[c][m].kind = "unbound"
    /\ \E a \in Alloc :
        /\ strong[a] = 0
        /\ \A b \in Alloc : strong[b] = 0 => a <= b
        /\ strong' = [strong EXCEPT ![a] = 1]
        /\ value' = [value EXCEPT ![a] = v]
        /\ committed' = [committed EXCEPT ![a] = v]
        /\ initial' = [initial EXCEPT ![a] = v]
        /\ env' = [env EXCEPT ![c][m] = Handle(a, a)]
    /\ UNCHANGED <<readers, wbit, call, st, launch, sched, done>>

\* ------------------------------------------------------------ Clone::clone
\* Arc::clone: a new handle to the same allocation.
\* (a clone that allocates a cell of its own when it can)
ArcCloneCopy(a) ==
    IF \E b \in Alloc : strong[b] = 0
    THEN CHOOSE b \in Alloc : strong[b] = 0
    ELSE a

ArcClone(a) == a

Clone(c, n, m) ==
    /\ Free(c)
    /\ env[c][n].kind = "handle"
    /\ env[c][m].kind = "unbound"
    /\ LET a == ArcClone(env[c][n].a) IN
        /\ strong' = [strong EXCEPT ![a] = @ + 1]
        /\ env' = [env EXCEPT ![c][m] = Handle(a, env[c][n].src)]
    /\ UNCHANGED <<value, readers, wbit, call, st, launch, sched, committed, initial, done>>

\* ------------------------------------------------------------ A::get
GetBegin(c, n) ==
    /\ Free(c)
    /\ done[c] < MaxCalls
    /\ env[c][n].kind = "handle"
    /\ LET a == env[c][n].a IN
        /\ CanLockShared(a)
        /\ readers' = [readers EXCEPT ![a] = @ + 1]
        /\ call' = [call EXCEPT ![c] =
                       [Idle EXCEPT !.op = "get", !.a = a, !.stage = "held"]]
    /\ UNCHANGED <<value, strong, wbit, env, st, launch, sched, committed, initial, done>>

GetEnd(c) ==
    /\ st[c] = "run"
    /\ InCall(c, "get", "held")
    /\ LET a == call[c].a IN
        /\ readers' = [readers EXCEPT ![a] = @ - 1]
    /\ call' = [call EXCEPT ![c] = Idle]
    /\ UNCHANGED <<value, strong, wbit, env, st, launch, sched,
                   committed, initial>>
    /\ done' = [done EXCEPT ![c] = @ + 1]

\* ------------------------------------------------------------ A::set
SetBegin(c, n, v) ==
    /\ Free(c)
    /\ done[c] < MaxCalls
    /\ env[c][n].kind = "handle"
    /\ LET a == env[c][n].a IN
        /\ CanLockExclusive(a)
        /\ wbit' = [wbit EXCEPT ![a] = TRUE]
        /\ call' = [call EXCEPT ![c] =
                       [Idle EXCEPT !.op = "set", !.a = a, !.arg = v,
                                    !.stage = IF Drained(a) THEN "held" ELSE "wait"]]
    /\ UNCHANGED <<value, strong, readers, env, st, launch, sched, committed, initial, done>>

SetEnd(c) ==
    /\ st[c] = "run"
    /\ InCall(c, "set", "held")
    /\ LET a == call[c].a IN
        /\ value' = [value EXCEPT ![a] = call[c].arg]
        /\ committed' = [committed EXCEPT ![a] = call[c].arg]
        /\ wbit' = [wbit EXCEPT ![a] = FALSE]
    /\ call' = [call EXCEPT ![c] = Idle]
    /\ UNCHANGED <<strong, readers, env, st, launch, sched,
                   initial>>
    /\ done' = [done EXCEPT ![c] = @ + 1]

\* ------------------------------------------------------------ A::update
\* update(f) with f = |x| { *x += 1; ... } (k increments). f works through
\* its exclusive reference: it loads the value once and stores each result.
UpdateBegin(c, n, k) ==
    /\ Free(c)
    /\ done[c] < MaxCalls
    /\ env[c][n].kind = "handle"
    /\ LET a == env[c][n].a IN
        /\ value[a] + k <= MaxVal
        /\ CanLockExclusive(a)
        /\ wbit' = [wbit EXCEPT ![a] = TRUE]
        /\ call' = [call EXCEPT ![c] =
                       [Idle EXCEPT !.op = "update", !.a = a, !.arg = k,
                                    !.left = k, !.tmp = value[a],
                                    !.stage = IF Drained(a) THEN "held" ELSE "wait"]]
    /\ UNCHANGED <<value, strong, readers, env, st, launch, sched, committed, initial, done>>

\* (an update whose closure works on a copy of the value)
UpdateStepOnCopy(c) ==
    /\ st[c] = "run"
    /\ InCall(c, "update", "held")
    /\ call[c].left > 0
    /\ call' = [call EXCEPT ![c].tmp = @ + 1, ![c].left = @ - 1]
    /\ UNCHANGED <<value, strong, readers, wbit, env, st, launch, sched,
                   committed, initial, done>>

UpdateStep(c) ==
    /\ st[c] = "run"
    /\ InCall(c, "update", "held")
    /\ call[c].left > 0
    /\ LET a == call[c].a IN
        value' = [value EXCEPT ![a] = call[c].tmp + 1]
    /\ call' = [call EXCEPT ![c].tmp = @ + 1, ![c].left = @ - 1]
    /\ UNCHANGED <<strong, readers, wbit, env, st, launch, sched, committed, initial, done>>

UpdateEnd(c) ==
    /\ st[c] = "run"
    /\ InCall(c, "update", "held")
    /\ call[c].left = 0
    /\ LET a == call[c].a IN
        /\ committed' = [committed EXCEPT ![a] = @ + call[c].arg]
        /\ wbit' = [wbit EXCEPT ![a] = FALSE]
    /\ call' = [call EXCEPT ![c] = Idle]
    /\ UNCHANGED <<value, strong, readers, env, st, launch, sched, initial>>
    /\ done' = [done EXCEPT ![c] = @ + 1]

\* ------------------------------------------------------------ A::read
\* read_arc(): the guard owns its own reference to the allocation.
Read(c, n, m) ==
    /\ Free(c)
    /\ env[c][n].kind = "handle"
    /\ env[c][m].kind = "unbound"
    /\ LET a == env[c][n].a IN
        /\ CanLockShared(a)
        /\ readers' = [readers EXCEPT ![a] = @ + 1]
        /\ strong' = [strong EXCEPT ![a] = @ + 1]
        /\ env' = [env EXCEPT ![c][m] = ReadGuard(a, env[c][n].src)]
    /\ UNCHANGED <<value, wbit, call, st, launch, sched,
                   committed, initial, done>>

\* ------------------------------------------------------------ A::write
Write(c, n, m) ==
    /\ Free(c)
    /\ env[c][n].kind = "handle"
    /\ env[c][m].kind = "unbound"
    /\ LET a == env[c][n].a IN
        /\ CanLockExclusive(a)
        /\ wbit' = [wbit EXCEPT ![a] = TRUE]
        /\ IF Drained(a)
           THEN /\ strong' = [strong EXCEPT ![a] = @ + 1]
                /\ env' = [env EXCEPT ![c][m] = WriteGuard(a, env[c][n].src)]
                /\ call' = call
           ELSE /\ call' = [call EXCEPT ![c] =
                               [Idle EXCEPT !.op = "write", !.a = a, !.arg = m,
                                            !.tmp = env[c][n].src, !.stage = "wait"]]
                /\ UNCHANGED <<strong, env>>
    /\ UNCHANGED <<value, readers, st, launch, sched,
                   committed, initial, done>>

\* A writer that took the WRITER bit while readers held the lock gets its
\* guard when the last reader has left.
WriteDrained(c) ==
    /\ st[c] = "run"
    /\ call[c].stage = "wait"
    /\ LET a == call[c].a IN
        /\ Drained(a)
        /\ IF call[c].op = "write"
           THEN /\ strong' = [strong EXCEPT ![a] = @ + 1]
                /\ env' = [env EXCEPT ![c][call[c].arg] = WriteGuard(a, call[c].tmp)]
                /\ call' = [call EXCEPT ![c] = Idle]
           ELSE /\ call' = [call EXCEPT ![c].stage = "held", ![c].tmp = value[a]]
                /\ UNCHANGED <<strong, env>>
    /\ UNCHANGED <<value, readers, wbit, st, launch, sched,
                   committed, initial, done>>

\* `*guard += 1` through a write guard bound to name m.
GuardWrite(c, m) ==
    /\ Free(c)
    /\ env[c][m].kind = "write"
    /\ LET a == env[c][m].a IN
        /\ value[a] < MaxVal
        /\ value' = [value EXCEPT ![a] = @ + 1]
    /\ UNCHANGED <<strong, readers, wbit, env, call, st, launch, sched, committed, initial, done>>

\* ------------------------------------------------------------ drop
\* Dropping the bindings of the names D of an environment e: a handle gives
\* up its reference, a guard gives up its lock and its reference.
Held(e, D, kinds, a) ==
    Cardinality({n \in D : e[n].kind \in kinds /\ e[n].a = a})

StrongAfterDrop(e, D) ==
    [a \in Alloc |-> strong[a] - Held(e, D, {"handle", "read", "write"}, a)]

\* (a read guard whose drop leaves the reader count as it was)
ReadersKept(e, D) == readers

ReadersAfterDrop(e, D) ==
    [a \in Alloc |-> readers[a] - Held(e, D, {"read"}, a)]

\* (a write guard whose drop leaves the WRITER bit set)
WbitKept(e, D) == wbit

WbitAfterDrop(e, D) ==
    [a \in Alloc |-> wbit[a] /\ Held(e, D, {"write"}, a) = 0]

CommittedAfterDrop(e, D) ==
    [a \in Alloc |-> IF Held(e, D, {"write"}, a) > 0 THEN value[a] ELSE committed[a]]

\* drop(x) of one binding: a guard at the end of its scope, a handle.
Drop(c, m) ==
    /\ Free(c)
    /\ env[c][m].kind # "unbound"
    /\ strong' = StrongAfterDrop(env[c], {m})
    /\ readers' = ReadersAfterDrop(env[c], {m})
    /\ wbit' = WbitAfterDrop(env[c], {m})
    /\ committed' = CommittedAfterDrop(env[c], {m})
    /\ env' = [env EXCEPT ![c][m] = Unbound]
    /\ UNCHANGED <<value, call, st, launch, sched, initial, done>>

\* ------------------------------------------------------------ tspawn!
\* The macro's input is a token stream; tspawn_internal! consumes it with
\* its rules tried in order, accumulating the clone list and the lock list.
Tok(k, n) == [k |-> k, n |-> n]
Modes == {"bare", "ref", "mut"}

ParseError == [ok |-> FALSE, clone |-> <<>>, lock |-> <<>>]

IsKw(input, i, k) == Len(input) >= i /\ input[i].k = k

\* $var:ident matches an identifier or a keyword.
\* (a fragment matcher that takes plain identifiers only)
IsIdentStrict(input, i) == IsKw(input, i, "id")

IsIdent(input, i) == Len(input) >= i /\ input[i].k \in {"id", "ref", "mut"}

\* [$($clone)* let $var = ::core::clone::Clone::clone(&$var);]
AddClone(clone, n) == Append(clone, n)

\* [$($lock)* let $var = $var.read();]  /  [$($lock)* let mut $var = $var.write();]
\* (a rule that puts its lock statement in front of the accumulated ones)
AddLockFront(lock, mode, n) == <<<<mode, n>>>> \o lock

\* (rules that all emit the read() statement)
AddLockRead(lock, mode, n) == Append(lock, <<"read", n>>)

AddLock(lock, mode, n) == Append(lock, <<mode, n>>)

RECURSIVE Parse(_, _, _)
Parse(clone, lock, input) ==
    IF Len(input) = 1 /\ IsKw(input, 1, "block")
    THEN [ok |-> TRUE, clone |-> clone, lock |-> lock]
    ELSE IF IsKw(input, 1, "ref") /\ IsIdent(input, 2) /\ IsKw(input, 3, "comma")
    THEN Parse(AddClone(clone, input[2].n), AddLock(lock, "read", input[2].n),
               SubSeq(input, 4, Len(input)))
    ELSE IF IsKw(input, 1, "mut") /\ IsIdent(input, 2) /\ IsKw(input, 3, "comma")
    THEN Parse(AddClone(clone, input[2].n), AddLock(lock, "write", input[2].n),
               SubSeq(input, 4, Len(input)))
    ELSE IF IsIdent(input, 1) /\ IsKw(input, 2, "comma")
    THEN Parse(AddClone(clone, input[1].n), lock, SubSeq(input, 3, Len(input)))
    ELSE IF Len(input) = 3 /\ IsKw(input, 1, "ref") /\ IsIdent(input, 2)
            /\ IsKw(input, 3, "block")
    THEN Parse(AddClone(clone, input[2].n), AddLock(lock, "read", input[2].n),
               <<input[3]>>)
    ELSE IF Len(input) = 3 /\ IsKw(input, 1, "mut") /\ IsIdent(input, 2)
            /\ IsKw(input, 3, "block")
    THEN Parse(AddClone(clone, input[2].n), AddLock(lock, "write", input[2].n),
               <<input[3]>>)
    ELSE IF Len(input) = 2 /\ IsIdent(input, 1) /\ IsKw(input, 2, "block")
    THEN Parse(AddClone(clone, input[1].n), lock, <<input[2]>>)
    ELSE ParseError

\* The tokens a call site writes for a variable list: `m1 v1, ..., mn vn, {..}`
\* or, with the comma before the body left out, `m1 v1, ..., mn vn {..}`.
PairTokens(pair) ==
    IF pair[1] = "bare" THEN <<Tok("id", pair[2])>>
    ELSE <<Tok(pair[1], 0), Tok("id", pair[2])>>

RECURSIVE Tokens(_, _)
Tokens(vs, comma) ==
    IF vs = <<>> THEN <<Tok("block", 0)>>
    ELSE IF Len(vs) = 1 /\ ~comma THEN PairTokens(vs[1]) \o <<Tok("block", 0)>>
    ELSE PairTokens(vs[1]) \o <<Tok("comma", 0)>> \o Tokens(Tail(vs), comma)

\* Variable lists: up to MaxVars pairs over the cells' names, each name once.
VarLists ==
    UNION {{vs \in [1..k -> Modes \X Cells] :
               \A i, j \in 1..k : i # j => vs[i][2] # vs[j][2]} : k \in 0..MaxVars}

ListedNames(vs) == {vs[i][2] : i \in 1..Len(vs)}

\* The call sites: a variable list, written with or without the comma before
\* the body, and the names the body refers to.
CallSites ==
    {cs \in [vs : VarLists, comma : BOOLEAN, u : SUBSET Cells] :
        cs.u \subseteq ListedNames(cs.vs)}

\* (a launch that hands the task to the scheduler before its block runs)
LaunchBeginSubmitted(t, cs) ==
    /\ Free(Caller)
    /\ st[t] = "new"
    /\ \A t2 \in Tasks : t2 < t => st[t2] # "new"
    /\ \A n \in ListedNames(cs.vs) : env[Caller][n].kind = "handle"
    /\ LET p == Parse(<<>>, <<>>, Tokens(cs.vs, cs.comma)) IN
        /\ p.ok
        /\ launch' = [NoLaunch EXCEPT !.active = TRUE, !.t = t, !.vs = cs.vs,
                                      !.uses = cs.u,
                                      !.clones = p.clone, !.locks = p.lock]
    /\ st' = [st EXCEPT ![t] = "queued"]
    /\ UNCHANGED <<value, strong, readers, wbit, env, call, sched,
                   committed, initial, done>>

\* (an expansion that refuses a list whose lock requests name one cell twice)
LaunchBeginChecked(t, cs) ==
    /\ Free(Caller)
    /\ st[t] = "new"
    /\ \A t2 \in Tasks : t2 < t => st[t2] # "new"
    /\ \A n \in ListedNames(cs.vs) : env[Caller][n].kind = "handle"
    /\ \A i, j \in 1..Len(cs.vs) :
            (i # j /\ cs.vs[i][1] # "bare" /\ cs.vs[j][1] # "bare")
                => env[Caller][cs.vs[i][2]].a # env[Caller][cs.vs[j][2]].a
    /\ LET p == Parse(<<>>, <<>>, Tokens(cs.vs, cs.comma)) IN
        /\ p.ok
        /\ launch' = [NoLaunch EXCEPT !.active = TRUE, !.t = t, !.vs = cs.vs,
                                      !.uses = cs.u,
                                      !.clones = p.clone, !.locks = p.lock]
    /\ UNCHANGED <<value, strong, readers, wbit, env, call, st, sched,
                   committed, initial, done>>

\* tspawn!(vs, body): macro expansion at the call site; the caller's block
\* starts with the clone list still to run.
LaunchBegin(t, cs) ==
    /\ Free(Caller)
    /\ st[t] = "new"
    /\ \A t2 \in Tasks : t2 < t => st[t2] # "new"
    /\ \A n \in ListedNames(cs.vs) : env[Caller][n].kind = "handle"
    /\ LET p == Parse(<<>>, <<>>, Tokens(cs.vs, cs.comma)) IN
        /\ p.ok
        /\ launch' = [NoLaunch EXCEPT !.active = TRUE, !.t = t, !.vs = cs.vs,
                                      !.uses = cs.u,
                                      !.clones = p.clone, !.locks = p.lock]
    /\ UNCHANGED <<value, strong, readers, wbit, env, call, st, sched,
                   committed, initial, done>>

\* (a duplicate that reads the cell under its read lock)
LaunchCloneLocked ==
    /\ launch.active
    /\ st[Caller] = "run"
    /\ launch.clones # <<>>
    /\ LET n == Head(launch.clones)
           a == ArcClone(env[Caller][n].a)
       IN
        /\ CanLockShared(a)
        /\ strong' = [strong EXCEPT ![a] = @ + 1]
        /\ launch' = [launch EXCEPT !.clones = Tail(@),
                                    !.scope[n] = Handle(a, env[Caller][n].src),
                                    !.trace = Append(@, <<"clone", n>>)]
    /\ UNCHANGED <<value, readers, wbit, env, call, st, sched,
                   committed, initial, done>>

\* (a duplicate that is a cell of its own, holding a copy of the value)
LaunchCloneFresh ==
    /\ launch.active
    /\ st[Caller] = "run"
    /\ launch.clones # <<>>
    /\ LET n == Head(launch.clones)
           a == ArcCloneCopy(env[Caller][n].a)
       IN
        /\ strong' = [strong EXCEPT ![a] = @ + 1]
        /\ value' = [value EXCEPT ![a] = value[env[Caller][n].a]]
        /\ committed' = [committed EXCEPT ![a] = committed[env[Caller][n].a]]
        /\ launch' = [launch EXCEPT !.clones = Tail(@),
                                    !.scope[n] = Handle(a, env[Caller][n].src),
                                    !.trace = Append(@, <<"clone", n>>)]
    /\ UNCHANGED <<readers, wbit, env, call, st, sched, initial, done>>

\* $($clone)* : let var = Clone::clone(&var);
LaunchClone ==
    /\ launch.active
    /\ st[Caller] = "run"
    /\ launch.clones # <<>>
    /\ LET n == Head(launch.clones)
           a == ArcClone(env[Caller][n].a)
       IN
        /\ strong' = [strong EXCEPT ![a] = @ + 1]
        /\ launch' = [launch EXCEPT !.clones = Tail(@),
                                    !.scope[n] = Handle(a, env[Caller][n].src),
                                    !.trace = Append(@, <<"clone", n>>)]
    /\ UNCHANGED <<value, readers, wbit, env, call, st, sched,
                   committed, initial, done>>

\* $($lock)* : let var = var.read();  /  let mut var = var.write();
\* evaluated inside the block that is the argument of tokio::spawn.
LaunchLock ==
    /\ launch.active
    /\ st[Caller] = "run"
    /\ launch.clones = <<>>
    /\ launch.locks # <<>>
    /\ ~launch.waiting
    /\ LET mode == Head(launch.locks)[1]
           n == Head(launch.locks)[2]
           a == launch.scope[n].a
           s == launch.scope[n].src
       IN
        IF mode = "read"
        THEN /\ CanLockShared(a)
             /\ readers' = [readers EXCEPT ![a] = @ + 1]
             /\ strong' = [strong EXCEPT ![a] = @ + 1]
             /\ launch' = [launch EXCEPT !.locks = Tail(@),
                                         !.scope[n] = ReadGuard(a, s),
                                         !.trace = Append(@, <<"read", n>>)]
             /\ wbit' = wbit
        ELSE /\ CanLockExclusive(a)
             /\ wbit' = [wbit EXCEPT ![a] = TRUE]
             /\ readers' = readers
             /\ IF Drained(a)
                THEN /\ strong' = [strong EXCEPT ![a] = @ + 1]
                     /\ launch' = [launch EXCEPT !.locks = Tail(@),
                                                 !.scope[n] = WriteGuard(a, s),
                                                 !.trace = Append(@, <<"write", n>>)]
                ELSE /\ launch' = [launch EXCEPT !.waiting = TRUE]
                     /\ strong' = strong
    /\ UNCHANGED <<value, env, call, st, sched, committed, initial, done>>

\* The pending write() of the lock list returns once the readers have left.
LaunchDrained ==
    /\ launch.active
    /\ st[Caller] = "run"
    /\ launch.waiting
    /\ LET n == Head(launch.locks)[2]
           a == launch.scope[n].a
           s == launch.scope[n].src
       IN
        /\ Drained(a)
        /\ strong' = [strong EXCEPT ![a] = @ + 1]
        /\ launch' = [launch EXCEPT !.locks = Tail(@), !.waiting = FALSE,
                                    !.scope[n] = WriteGuard(a, s),
                                    !.trace = Append(@, <<"write", n>>)]
    /\ UNCHANGED <<value, readers, wbit, env, call, st, sched,
                   committed, initial, done>>

\* async move $body captures the bindings the body refers to; the block
\* ends, dropping the bindings it did not capture; tokio::spawn queues the
\* future; the outer block ends, dropping the clones the guards shadowed.
Captured == {n \in Names : n \in launch.uses /\ launch.scope[n].kind # "unbound"}

\* (clones that are never dropped once a guard has shadowed them)
ShadowedLeaked(a) == 0

Shadowed(a) ==
    Cardinality({n \in Names : launch.scope[n].kind \in {"read", "write"}
                               /\ launch.scope[n].a = a})

LaunchSpawn ==
    /\ launch.active
    /\ st[Caller] = "run"
    /\ launch.clones = <<>>
    /\ launch.locks = <<>>
    /\ LET t == launch.t
           D == Names \ Captured
           afterDrop == StrongAfterDrop(launch.scope, D)
       IN
        /\ env' = [env EXCEPT ![t] =
                      [n \in Names |-> IF n \in Captured THEN launch.scope[n]
                                       ELSE Unbound]]
        /\ strong' = [a \in Alloc |-> afterDrop[a] - Shadowed(a)]
        /\ readers' = ReadersAfterDrop(launch.scope, D)
        /\ wbit' = WbitAfterDrop(launch.scope, D)
        /\ committed' = CommittedAfterDrop(launch.scope, D)
        /\ st' = [st EXCEPT ![t] = "queued"]
    /\ launch' = NoLaunch
    /\ UNCHANGED <<value, call, sched, initial, done>>

\* tokio::spawn(async move { .. }) called directly: the future captures
\* nothing and is queued.
SpawnEffect(t) ==
    /\ st' = [st EXCEPT ![t] = "queued"]
    /\ UNCHANGED <<value, strong, readers, wbit, env, call, sched,
                   committed, initial, done>>

SpawnDirect(t) ==
    /\ Free(Caller)
    /\ st[t] = "new"
    /\ \A t2 \in Tasks : t2 < t => st[t2] # "new"
    /\ SpawnEffect(t)
    /\ launch' = launch

\* ------------------------------------------------------------ scheduler
\* tokio: with the current-thread flavor (#[tokio::test]) the spawned tasks
\* share the caller's thread and run only while the caller is suspended at an
\* .await; with the multi-thread flavor (#[tokio::main]) the caller has its
\* own thread and the tasks share the worker threads.
Runtimes ==
    {[flavor |-> "current_thread", workers |-> 1]}
        \cup [flavor : {"multi_thread"}, workers : 1..MaxWorkers]

RunningTasks == {u \in Tasks : st[u] = "run"}

ThreadFree ==
    IF sched.flavor = "current_thread"
    THEN st[Caller] # "run" /\ RunningTasks = {}
    ELSE Cardinality(RunningTasks) < sched.workers

\* A worker polls a queued task: the body starts, or resumes after an .await.
TaskPoll(t) ==
    /\ st[t] = "queued"
    /\ ThreadFree
    /\ st' = [st EXCEPT ![t] = "run"]
    /\ UNCHANGED <<value, strong, readers, wbit, env, call, launch,
                   sched, committed, initial, done>>

\* (a suspension that gives up the guards of the task)
BodyAwaitReleasing(t) ==
    /\ Free(t)
    /\ strong' = StrongAfterDrop(env[t], Names)
    /\ readers' = ReadersAfterDrop(env[t], Names)
    /\ wbit' = WbitAfterDrop(env[t], Names)
    /\ committed' = CommittedAfterDrop(env[t], Names)
    /\ env' = [env EXCEPT ![t] = EmptyEnv]
    /\ st' = [st EXCEPT ![t] = "susp"]
    /\ UNCHANGED <<value, call, launch, sched, initial, done>>

\* The body reaches an .await: the future keeps everything it captured.
BodyAwait(t) ==
    /\ Free(t)
    /\ st' = [st EXCEPT ![t] = "susp"]
    /\ UNCHANGED <<value, strong, readers, wbit, env, call, launch,
                   sched, committed, initial, done>>

TaskWake(t) ==
    /\ st[t] = "susp"
    /\ st' = [st EXCEPT ![t] = "queued"]
    /\ UNCHANGED <<value, strong, readers, wbit, env, call, launch,
                   sched, committed, initial, done>>

\* (a future that is forgotten instead of dropped: its guards stay locked)
DropFutureForget(t, final) ==
    /\ env' = [env EXCEPT ![t] = EmptyEnv]
    /\ st' = [st EXCEPT ![t] = final]
    /\ UNCHANGED <<strong, readers, wbit, committed>>

\* The future is dropped, with every binding it captured.
DropFuture(t, final) ==
    /\ strong' = StrongAfterDrop(env[t], Names)
    /\ readers' = ReadersAfterDrop(env[t], Names)
    /\ wbit' = WbitAfterDrop(env[t], Names)
    /\ committed' = CommittedAfterDrop(env[t], Names)
    /\ env' = [env EXCEPT ![t] = EmptyEnv]
    /\ st' = [st EXCEPT ![t] = final]

\* (a finished task whose future stays alive, with all it captured)
TaskEndKeeping(t) ==
    /\ t \in Tasks
    /\ Free(t)
    /\ st' = [st EXCEPT ![t] = "done"]
    /\ UNCHANGED <<value, strong, readers, wbit, env, call, launch, sched,
                   committed, initial, done>>

\* The body finishes.
TaskEnd(t) ==
    /\ t \in Tasks
    /\ Free(t)
    /\ DropFuture(t, "done")
    /\ UNCHANGED <<value, call, launch, sched, initial, done>>

\* The task is cancelled while it is not running (JoinHandle::abort, runtime
\* shutdown): the scheduler drops the future. On the current-thread flavor the
\* scheduler runs on the caller's thread, which a launch in progress occupies.
TaskAbandon(t) ==
    /\ st[t] \in {"queued", "susp"}
    /\ (sched.flavor = "current_thread" => ~launch.active)
    /\ DropFuture(t, "abandoned")
    /\ UNCHANGED <<value, call, launch, sched, initial, done>>

\* The body panics between two calls: tokio catches the unwind at the poll
\* and drops the future; the JoinHandle resolves to an error.
TaskPanic(t) ==
    /\ t \in Tasks
    /\ Free(t)
    /\ DropFuture(t, "panicked")
    /\ UNCHANGED <<value, call, launch, sched, initial, done>>

\* The closure given to update() panics: the unwind drops update's write
\* guard, leaving the value as the closure last stored it, then leaves the
\* body, and the future is dropped as for any panic.
UpdatePanic(t) ==
    /\ t \in Tasks
    /\ st[t] = "run"
    /\ InCall(t, "update", "held")
    /\ LET a == call[t].a IN
        /\ wbit' = [WbitAfterDrop(env[t], Names) EXCEPT ![a] = FALSE]
        /\ committed' = [CommittedAfterDrop(env[t], Names) EXCEPT ![a] = value[a]]
    /\ strong' = StrongAfterDrop(env[t], Names)
    /\ readers' = ReadersAfterDrop(env[t], Names)
    /\ env' = [env EXCEPT ![t] = EmptyEnv]
    /\ st' = [st EXCEPT ![t] = "panicked"]
    /\ call' = [call EXCEPT ![t] = Idle]
    /\ UNCHANGED <<value, launch, sched, initial, done>>

\* handle.await in the caller.
AwaitBegin(t) ==
    /\ Free(Caller)
    /\ st[t] # "new"
    /\ st' = [st EXCEPT ![Caller] = "await"]
    /\ call' = [call EXCEPT ![Caller] = [Idle EXCEPT !.op = "join", !.arg = t]]
    /\ UNCHANGED <<value, strong, readers, wbit, env, launch, sched,
                   committed, initial, done>>

AwaitEnd ==
    /\ st[Caller] = "await"
    /\ st[call[Caller].arg] \in {"done", "abandoned", "panicked"}
    /\ (sched.flavor = "current_thread" => RunningTasks = {})
    /\ st' = [st EXCEPT ![Caller] = "run"]
    /\ call' = [call EXCEPT ![Caller] = Idle]
    /\ UNCHANGED <<value, strong, readers, wbit, env, launch, sched,
                   committed, initial, done>>

\* ------------------------------------------------------------ Init
\* The caller has constructed the cells (A::new) and holds one handle to each,
\* bound to the name of the cell; no task has been launched.
InitCells(varied, vals) ==
    /\ initial \in [Alloc -> vals \cup {0}]
    /\ \A a \in Alloc \ varied : initial[a] = 0
    /\ value = initial
    /\ committed = initial
    /\ strong = [a \in Alloc |-> IF a \in Cells THEN 1 ELSE 0]
    /\ readers = [a \in Alloc |-> 0]
    /\ wbit = [a \in Alloc |-> FALSE]
    /\ call = [c \in Ctx |-> Idle]
    /\ done = [c \in Ctx |-> 0]
    /\ launch = NoLaunch

CallerEnv == [n \in Names |-> IF n \in Cells THEN Handle(n, n) ELSE Unbound]

Init ==
    /\ InitCells({}, {0})
    /\ env = [c \in Ctx |-> IF c = Caller THEN CallerEnv ELSE EmptyEnv]
    /\ st = [c \in Ctx |-> IF c = Caller THEN "run" ELSE "new"]
    /\ sched \in Runtimes

\* ------------------------------------------------------------ Next
Launch ==
    \/ /\ Free(Caller)
       /\ \E t \in Tasks, cs \in CallSites : LaunchBegin(t, cs)
    \/ LaunchClone
    \/ LaunchLock
    \/ LaunchDrained
    \/ LaunchSpawn
    \/ \E t \in Tasks : SpawnDirect(t)

Schedule ==
    \/ \E t \in Tasks : TaskPoll(t)
    \/ \E t \in Tasks : BodyAwait(t)
    \/ \E t \in Tasks : TaskWake(t)
    \/ \E t \in Tasks : TaskEnd(t)
    \/ \E t \in Tasks : TaskAbandon(t)
    \/ \E t \in Tasks : AwaitBegin(t)
    \/ AwaitEnd

Body ==
    \/ \E t \in Tasks, n \in Cells : GuardWrite(t, n)

Next == Launch \/ Schedule \/ Body

Spec == Init /\ [][Next]_vars

\* ------------------------------------------------------------ one cell
\* The cell API under contention: the caller and the tasks it launches all
\* work on the first cell; the caller through its handle and its clones,
\* the tasks through what `tspawn!(x, ..)`, `tspawn!(ref x, ..)` and
\* `tspawn!(mut x, ..)` bind for them.
One == 1
Spare == Names \ Cells
InitVals == {0, 1}

InitCell ==
    /\ InitCells({One}, InitVals)
    /\ env = [c \in Ctx |-> IF c = Caller THEN CallerEnv ELSE EmptyEnv]
    /\ st = [c \in Ctx |-> IF c = Caller THEN "run" ELSE "new"]
    /\ sched = [flavor |-> "multi_thread", workers |-> MaxWorkers]

CellLaunch ==
    \/ /\ Free(Caller)
       /\ \E t \in Tasks, cs \in CallSites :
            /\ ListedNames(cs.vs) \subseteq {One}
            /\ LaunchBegin(t, cs)
    \/ LaunchClone
    \/ LaunchLock
    \/ LaunchDrained
    \/ LaunchSpawn

CellApi ==
    \/ \E m \in Spare, v \in InitVals \ {0} : New(Caller, m, v)
    \/ \E c \in Ctx, n \in Names : GetBegin(c, n)
    \/ \E c \in Ctx : GetEnd(c)
    \/ \E c \in Ctx, n \in Names, v \in InitVals : SetBegin(c, n, v)
    \/ \E c \in Ctx : SetEnd(c)
    \/ \E c \in Ctx, n \in Names, k \in 1..MaxIncr : UpdateBegin(c, n, k)
    \/ \E c \in Ctx : UpdateStep(c)
    \/ \E c \in Ctx : UpdateEnd(c)
    \/ \E c \in Ctx : WriteDrained(c)
    \/ \E m \in Spare : Clone(Caller, One, m)
    \/ \E m \in Spare : Read(Caller, One, m)
    \/ \E m \in Spare : Write(Caller, One, m)
    \/ \E c \in Ctx, m \in Names : GuardWrite(c, m)
    \/ \E m \in Spare : Drop(Caller, m)

CellSchedule ==
    \/ \E t \in Tasks : TaskPoll(t)
    \/ \E t \in Tasks : TaskEnd(t)
    \/ \E t \in Tasks : AwaitBegin(t)
    \/ AwaitEnd

NextCell == CellLaunch \/ CellSchedule \/ CellApi

SpecCell == InitCell /\ [][NextCell]_vars

\* ------------------------------------------------------------ counter
\* test_concurrent_access: the caller hands a clone of one cell to each of
\* NumTasks tasks; every task calls update(|x| *x += 1) once and finishes;
\* the caller awaits the handles and reads the cell with get().
CounterSite == [vs |-> <<<<"bare", One>>>>, comma |-> TRUE, u |-> {One}]

InitCounter ==
    /\ InitCells({One}, InitVals)
    /\ env = [c \in Ctx |-> IF c = Caller THEN CallerEnv ELSE EmptyEnv]
    /\ st = [c \in Ctx |-> IF c = Caller THEN "run" ELSE "new"]
    /\ sched \in Runtimes

NextCounter ==
    \/ \E t \in Tasks : LaunchBegin(t, CounterSite)
    \/ LaunchClone
    \/ LaunchSpawn
    \/ \E t \in Tasks : TaskPoll(t)
    \/ \E t \in Tasks : done[t] = 0 /\ UpdateBegin(t, One, 1)
    \/ \E t \in Tasks : WriteDrained(t)
    \/ \E t \in Tasks : UpdateStep(t)
    \/ \E t \in Tasks : UpdateEnd(t)
    \/ \E t \in Tasks : done[t] = 1 /\ TaskEnd(t)
    \/ \E t \in Tasks : AwaitBegin(t)
    \/ AwaitEnd
    \/ GetBegin(Caller, One)
    \/ GetEnd(Caller)

SpecCounter == InitCounter /\ [][NextCounter]_vars

\* ================================================================ claims
\* The guards that are live on an allocation: the bindings of every context,
\* the bindings of the launch in progress, and the temporary guards inside
\* get(), set() and update().
ReadGuards(a) ==
    Cardinality({cn \in Ctx \X Names :
                    env[cn[1]][cn[2]].kind = "read" /\ env[cn[1]][cn[2]].a = a})
    + Cardinality({n \in Names :
                    launch.scope[n].kind = "read" /\ launch.scope[n].a = a})
    + Cardinality({c \in Ctx : InCall(c, "get", "held") /\ call[c].a = a})

WriteGuards(a) ==
    Cardinality({cn \in Ctx \X Names :
                    env[cn[1]][cn[2]].kind = "write" /\ env[cn[1]][cn[2]].a = a})
    + Cardinality({n \in Names :
                    launch.scope[n].kind = "write" /\ launch.scope[n].a = a})
    + Cardinality({c \in Ctx : call[c].op \in {"set", "update"}
                               /\ call[c].stage = "held" /\ call[c].a = a})

\* C1: in every reachable state and for every cell, the live guards are
\* either any number of read guards and no write guard, or exactly one write
\* guard and no read guard, whatever call or binding produced them.
C1_ReadersXorWriter ==
    \A a \in Alloc :
        \/ WriteGuards(a) = 0
        \/ WriteGuards(a) = 1 /\ ReadGuards(a) = 0

\* Two read guards are live on the cell while a writer waits for them.
C1_Witness ==
    /\ ReadGuards(One) >= 2
    /\ \E c \in Ctx : call[c].stage = "wait" /\ call[c].a = One

\* C2: no lost updates. When each of the NumTasks tasks has called
\* update(|x| *x += 1) once on its duplicate of the cell and all of them have
\* completed, get() reads the initial value plus NumTasks, in every
\* interleaving and under every runtime.
AllDone == \A t \in Tasks : st[t] = "done"

C2_NoLostUpdate ==
    (AllDone /\ InCall(Caller, "get", "held"))
        => value[One] = initial[One] + NumTasks

\* The caller's get() holds its read lock after all the tasks have finished,
\* on a runtime whose workers ran the tasks in parallel with the caller.
C2_Witness ==
    /\ AllDone
    /\ InCall(Caller, "get", "held")
    /\ sched.flavor = "multi_thread"
    /\ sched.workers >= 2
    /\ initial[One] = 1

\* C8: a get() reads exactly the value produced by the most recent completed
\* set()/update() on the cell, through whichever handle the calls were made:
\* set(v) leaves v, update(f) leaves f applied to what the call before left.
C8_GetReadsLastWrite ==
    \A c \in Ctx :
        InCall(c, "get", "held") => value[call[c].a] = committed[call[c].a]

\* A get() holds its read lock after completed calls have changed the cell.
C8_Witness ==
    \E c \in Ctx :
        /\ InCall(c, "get", "held")
        /\ call[c].a = One
        /\ committed[One] # initial[One]
        /\ \E d \in Ctx \ {c} : done[d] > 0

\* C9: update(f) and write guards are atomic for observers. While a read
\* guard (the one inside get(), or a read binding) is live on a cell, no
\* mutation step of an update closure or of a write guard changes the cell,
\* so no reader sees a value that only part of the steps produced.
C9_NoStepUnderReaders ==
    [][\A a \in Alloc : ReadGuards(a) > 0 => value'[a] = value[a]]_vars

\* An update of two steps has made the first one: the cell holds a value
\* that no completed call produced.
C9_Witness ==
    \E c \in Ctx :
        /\ InCall(c, "update", "held")
        /\ call[c].arg = 2
        /\ call[c].left = 1
        /\ value[call[c].a] # committed[call[c].a]

\* C10: all duplicates of a cell refer to one underlying value. Handles that
\* stem from the same cell point to the same allocation, so get() through any
\* of them reads the same value, before and after every mutation.
Handles ==
    {env[c][n] : c \in Ctx, n \in Names} \cup {launch.scope[n] : n \in Names}

C10_DuplicatesShare ==
    \A h1, h2 \in Handles :
        (h1.kind = "handle" /\ h2.kind = "handle" /\ h1.src = h2.src)
            => (h1.a = h2.a /\ value[h1.a] = value[h2.a])

\* The caller holds a clone next to its handle, a task holds another
\* duplicate, and a mutation of the cell has completed.
C10_Witness ==
    /\ \E m \in Spare : env[Caller][m] = Handle(One, One)
    /\ \E t \in Tasks : env[t][One] = Handle(One, One)
    /\ committed[One] # initial[One]

\* ------------------------------------------------------------ launches
Guards == {"read", "write"}
Live == {"queued", "run", "susp"}

\* The launch step that hands the task to the scheduler.
Spawning == launch.active /\ ~launch'.active

\* The caller is inside tspawn! and its next lock statement cannot return.
HeadCell == launch.scope[Head(launch.locks)[2]].a

LaunchBlocked ==
    /\ launch.active
    /\ launch.clones = <<>>
    /\ launch.locks # <<>>
    /\ IF launch.waiting THEN ~Drained(HeadCell)
       ELSE IF Head(launch.locks)[1] = "read" THEN ~CanLockShared(HeadCell)
       ELSE ~CanLockExclusive(HeadCell)

\* What the variable list asks for, read off the list itself.
IsLocked(pair) == pair[1] # "bare"
LockStep(pair) == <<IF pair[1] = "ref" THEN "read" ELSE "write", pair[2]>>

ExpectedSteps(vs) ==
    LET ls == SelectSeq(vs, IsLocked) IN
        [i \in 1..Len(vs) |-> <<"clone", vs[i][2]>>]
            \o [i \in 1..Len(ls) |-> LockStep(ls[i])]

IsPrefix(s, t) == Len(s) <= Len(t) /\ SubSeq(t, 1, Len(s)) = s

\* C3 as stated: every guard a launch acquires, whether or not the body
\* refers to its name, is in the hands of the task from before the body's
\* first step on.
C3_Original ==
    [][Spawning =>
          \A n \in Names :
              launch.scope[n].kind \in Guards
                  => env'[launch.t][n] = launch.scope[n]]_vars

\* The lock state that goes with a guard: nobody holds a conflicting guard.
HeldExclusively(b) ==
    IF b.kind = "read"
    THEN readers[b.a] >= 1 /\ WriteGuards(b.a) = 0
    ELSE wbit[b.a] /\ readers[b.a] = 0
         /\ WriteGuards(b.a) = 1 /\ ReadGuards(b.a) = 0

\* C3 (amended): for every ref or mut pair whose name the body refers to, the
\* guard goes to the task when it is submitted, is held at every step while
\* the task is queued, running or suspended at an .await, and is given up
\* only by the step that finishes or abandons the task; all that time no
\* other holder has a conflicting guard on the cell.
C3_CapturedGuardHeld ==
    [][/\ Spawning =>
            \A n \in launch.uses :
                launch.scope[n].kind \in Guards
                    => env'[launch.t][n] = launch.scope[n]
       /\ \A t \in Tasks, n \in Names :
            env[t][n].kind \in Guards =>
                /\ st[t] \in Live
                /\ HeldExclusively(env[t][n])
                /\ env'[t][n] # env[t][n] => st'[t] \in {"done", "abandoned"}]_vars

\* A task is suspended at an .await with a write guard while the caller's
\* next launch waits for that cell.
C3_Witness ==
    /\ LaunchBlocked
    /\ \E t \in Tasks, n \in Names :
        /\ st[t] = "susp"
        /\ env[t][n].kind = "write"
        /\ env[t][n].a = HeadCell

\* C4: a launch performs one clone per listed variable in declaration order,
\* then one lock acquisition per ref/mut variable in declaration order; the
\* task is not submitted, and so its body does not start, before all of them
\* are done.
OrderedSoFar(l, s) ==
    l.active => (IsPrefix(l.trace, ExpectedSteps(l.vs)) /\ s[l.t] = "new")

C4_LaunchOrder ==
    [][/\ OrderedSoFar(launch, st)
       /\ OrderedSoFar(launch', st')
       /\ Spawning => (launch.trace = ExpectedSteps(launch.vs)
                       /\ st'[launch.t] = "queued")]_vars

\* `tspawn!(ref y, mut x, ..)` has run its two clones and its two locks.
C4_Witness ==
    /\ launch.active
    /\ launch.vs = <<<<"ref", 2>>, <<"mut", 1>>>>
    /\ launch.trace = <<<<"clone", 2>>, <<"clone", 1>>, <<"read", 2>>, <<"write", 1>>>>

\* C5 as stated: while the tspawn! call runs in the caller it acquires no
\* lock and never waits for one.
C5_Original ==
    launch.active =>
        /\ \A i \in 1..Len(launch.trace) : launch.trace[i][1] = "clone"
        /\ ~LaunchBlocked

\* C5 (amended): the lock acquisitions of a launch are steps of the launching
\* caller. Every lock taken is taken by the tspawn! call after its clones and
\* before the task is handed to the scheduler, and the task is submitted only
\* when all of them have returned; so the call waits while a conflicting
\* guard is held.
LockTaken(a) == readers'[a] > readers[a] \/ (wbit'[a] /\ ~wbit[a])
IsLockStep(e) == e[1] \in Guards

C5_LocksTakenByCaller ==
    [][/\ \A a \in Alloc :
            LockTaken(a) =>
                /\ launch.active
                /\ launch.clones = <<>>
                /\ st[Caller] = "run"
                /\ st[launch.t] = "new"
                /\ st'[launch.t] = "new"
       /\ Spawning =>
            Len(SelectSeq(launch.trace, IsLockStep))
                = Len(SelectSeq(launch.vs, IsLocked))]_vars

\* The tspawn! call waits for a cell whose write guard a task holds.
C5_Witness ==
    /\ LaunchBlocked
    /\ \E t \in Tasks, n \in Names :
        env[t][n].kind = "write" /\ env[t][n].a = HeadCell

\* C6: when a launch submits its task, every listed name is bound as its own
\* modifier says: a bare name to a duplicate handle of the caller's cell, on
\* which the launch took no lock; a ref name to a live read guard and a mut
\* name to a live write guard on the caller's cell. The launch has performed
\* exactly one clone per pair and one lock acquisition per ref/mut pair, and
\* the body receives these bindings, unchanged, for the names it refers to
\* and nothing for a name that is not listed.
BoundAs(pair, b) ==
    /\ b.a = env[Caller][pair[2]].a
    /\ strong[b.a] >= 2
    /\ CASE pair[1] = "bare" ->
                /\ b.kind = "handle"
                /\ \A i \in 1..Len(launch.trace) :
                        IsLockStep(launch.trace[i]) => launch.trace[i][2] # pair[2]
         [] pair[1] = "ref" -> b.kind = "read" /\ readers[b.a] >= 1 /\ ~wbit[b.a]
         [] pair[1] = "mut" -> b.kind = "write" /\ wbit[b.a] /\ readers[b.a] = 0

IsCloneStep(e) == e[1] = "clone"

C7_Original == LaunchBlocked => ENABLED Next

\* ------------------------------------------------------------ owned mode
\* C11: a bare binding is a fresh handle, not a fresh value. When the body of
\* tspawn!(a, {..}) completes a.set(v) or a.update(f) through its binding, the
\* value behind the caller's original handle is v, resp. f of the previous
\* value, and it is still so when the task completes.
C11_OwnedHandleWrites ==
    [][/\ \A t \in Tasks :
            (call[t].op \in {"set", "update"} /\ call[t].stage = "held"
                /\ call'[t] = Idle) =>
                LET a == env[Caller][One].a IN
                    /\ env[t][One].kind = "handle"
                    /\ value'[a] = IF call[t].op = "set" THEN call[t].arg
                                   ELSE committed[a] + call[t].arg
                    /\ committed'[a] = value'[a]
       /\ \A t \in Tasks : (st[t] = "run" /\ st'[t] = "done") => value' = value]_vars

\* The task has written through its bare binding and completed; the caller
\* reads the changed value through its own handle.
C11_Witness ==
    \E t \in Tasks :
        /\ st[t] = "done"
        /\ done[t] = 1
        /\ \A c \in Ctx \ {t} : done[c] = 0
        /\ InCall(Caller, "get", "held")
        /\ call[Caller].a = env[Caller][One].a
        /\ value[env[Caller][One].a] # initial[env[Caller][One].a]

\* ------------------------------------------------------------ mixed access
\* test_tspawn_mixed_access / test_tspawn_variadic_patterns with one pair of
\* each mode: tspawn!(a, ref b, mut c, { *c += a.get() + *b; }) on three
\* cells; the caller awaits the task and reads the cells with get().
MixedCells == {1, 2, 3}

MixedSites ==
    {[vs |-> <<<<"bare", 1>>, <<"ref", 2>>, <<"mut", 3>>>>, comma |-> b,
      u |-> MixedCells] : b \in BOOLEAN}

\* The body: a.get() takes and releases the read lock of a; *b reads through
\* the read guard; *c is assigned through the write guard.
BodySum(t, a, b, c) ==
    /\ Free(t)
    /\ done[t] = 0
    /\ env[t][a].kind = "handle"
    /\ env[t][b].kind = "read"
    /\ env[t][c].kind = "write"
    /\ CanLockShared(env[t][a].a)
    /\ value' = [value EXCEPT ![env[t][c].a] =
                    @ + value[env[t][a].a] + value[env[t][b].a]]
    /\ done' = [done EXCEPT ![t] = @ + 1]
    /\ UNCHANGED <<strong, readers, wbit, env, call, st, launch, sched,
                   committed, initial>>

InitMixed ==
    /\ initial \in [Alloc -> InitVals]
    /\ \A a \in Alloc \ MixedCells : initial[a] = 0
    /\ value = initial
    /\ committed = initial
    /\ strong = [a \in Alloc |-> IF a \in MixedCells THEN 1 ELSE 0]
    /\ readers = [a \in Alloc |-> 0]
    /\ wbit = [a \in Alloc |-> FALSE]
    /\ call = [c \in Ctx |-> Idle]
    /\ done = [c \in Ctx |-> 0]
    /\ launch = NoLaunch
    /\ env = [c \in Ctx |->
                IF c = Caller
                THEN [n \in Names |-> IF n \in MixedCells THEN Handle(n, n)
                                      ELSE Unbound]
                ELSE EmptyEnv]
    /\ st = [c \in Ctx |-> IF c = Caller THEN "run" ELSE "new"]
    /\ sched \in Runtimes

NextMixed ==
    \/ \E t \in Tasks, cs \in MixedSites : LaunchBegin(t, cs)
    \/ LaunchClone
    \/ LaunchLock
    \/ LaunchSpawn
    \/ \E t \in Tasks : TaskPoll(t)
    \/ \E t \in Tasks : BodySum(t, 1, 2, 3)
    \/ \E t \in Tasks : done[t] = 1 /\ TaskEnd(t)
    \/ \E t \in Tasks : AwaitBegin(t)
    \/ AwaitEnd
    \/ \E n \in MixedCells : GetBegin(Caller, n)
    \/ GetEnd(Caller)

SpecMixed == InitMixed /\ [][NextMixed]_vars

\* C12: with bindings [bare a, ref b, mut c] on three distinct cells and body
\* c := c + a + b, a and b keep their initial values at every step, c holds
\* c0 + a0 + b0 once the task's body has run (and one more a0 + b0 for every
\* further such task), a completed task has run its body, and when no task is
\* live every lock is released and the caller's handles read these values.
BodiesRun == Cardinality({t \in Tasks : done[t] = 1})

C12_MixedAccess ==
    /\ value[1] = initial[1]
    /\ value[2] = initial[2]
    /\ value[3] = initial[3] + BodiesRun * (initial[1] + initial[2])
    /\ \A t \in Tasks : st[t] = "done" => done[t] = 1
    /\ ((\A t \in Tasks : st[t] \in {"new", "done"}) /\ ~launch.active) =>
            /\ committed = value
            /\ \A a \in Alloc : readers[a] = 0 \/ InCall(Caller, "get", "held")
            /\ \A a \in Alloc : ~wbit[a]
            /\ \A n \in MixedCells : env[Caller][n] = Handle(n, n)

\* One task has completed and the caller's get() on c reads 1 + 1 + 1.
C12_Witness ==
    /\ st[1] = "done"
    /\ st[2] = "new"
    /\ InCall(Caller, "get", "held")
    /\ call[Caller].a = 3
    /\ initial[1] = 1 /\ initial[2] = 1 /\ initial[3] = 1
    /\ value[3] = 3

\* ------------------------------------------------------------ empty list
\* C13: a launch with an empty variable list has an empty clone list and an
\* empty lock list, never waits, and the step that submits its task changes
\* the program's state exactly as tokio::spawn called directly on the body
\* does: the task is queued with nothing captured and nothing else changes.
EmptyLaunch(l) == l.active /\ l.vs = <<>>

C13_EmptyListIsSpawn ==
    [][/\ EmptyLaunch(launch') =>
            /\ launch'.clones = <<>> /\ launch'.locks = <<>>
            /\ launch'.trace = <<>>
            /\ launch'.scope = EmptyEnv
       /\ EmptyLaunch(launch) =>
            /\ ~LaunchBlocked
            /\ st[launch.t] = "new"
       /\ (Spawning /\ EmptyLaunch(launch)) =>
            /\ SpawnEffect(launch.t)
            /\ env'[launch.t] = EmptyEnv]_vars

\* A launch with an empty list is about to submit its task while another
\* task holds a write guard.
C13_Witness ==
    /\ EmptyLaunch(launch)
    /\ \E t \in Tasks, n \in Names : env[t][n].kind = "write"

\* ------------------------------------------------------------ failing tasks
\* Tasks on one cell that may panic in their body or inside update(), or be
\* cancelled while queued or suspended; the caller keeps launching tasks,
\* awaits them and reads the cell.
NextFail ==
    \/ CellLaunch
    \/ \E t \in Tasks : TaskPoll(t)
    \/ \E t \in Tasks : BodyAwait(t)
    \/ \E t \in Tasks : TaskWake(t)
    \/ \E t \in Tasks : TaskEnd(t)
    \/ \E t \in Tasks : TaskAbandon(t)
    \/ \E t \in Tasks : TaskPanic(t)
    \/ \E t \in Tasks : AwaitBegin(t)
    \/ AwaitEnd
    \/ \E t \in Tasks, k \in 1..MaxIncr : UpdateBegin(t, One, k)
    \/ \E t \in Tasks : WriteDrained(t)
    \/ \E t \in Tasks : UpdateStep(t)
    \/ \E t \in Tasks : UpdateEnd(t)
    \/ \E t \in Tasks : UpdatePanic(t)
    \/ \E t \in Tasks : GuardWrite(t, One)
    \/ GetBegin(Caller, One)
    \/ GetEnd(Caller)

SpecFail == InitCounter /\ [][NextFail]_vars

\* A writer that has the WRITER bit and waits for the readers to leave.
PendingWriters(a) ==
    Cardinality({c \in Ctx : call[c].stage = "wait" /\ call[c].a = a})
    + (IF launch.active /\ launch.waiting /\ HeadCell = a THEN 1 ELSE 0)

Failed == {"panicked", "abandoned"}

\* C14: no poisoning, release on every exit path. The lock state of a cell is
\* exactly what its live guards and waiting writers account for, so a cell
\* nobody holds can be locked again, whatever failed before. The step in
\* which a task panics (in its body or inside update()) or is cancelled
\* releases every guard the task held and leaves each value as the failing
\* code last stored it; a failed task holds nothing.
C14_ReleasedOnFailure ==
    [][/\ \A a \in Alloc :
            /\ readers[a] = ReadGuards(a)
            /\ wbit[a] <=> (WriteGuards(a) + PendingWriters(a) = 1)
            /\ (ReadGuards(a) + WriteGuards(a) + PendingWriters(a) = 0) =>
                    (CanLockShared(a) /\ CanLockExclusive(a) /\ Drained(a))
       /\ \A t \in Tasks :
            (st[t] \notin Failed /\ st'[t] \in Failed) =>
                /\ value' = value
                /\ env'[t] = EmptyEnv /\ call'[t] = Idle
                /\ \A a \in Alloc :
                    /\ readers'[a] = readers[a] - Held(env[t], Names, {"read"}, a)
                    /\ (Held(env[t], Names, {"write"}, a) > 0
                            \/ (InCall(t, "update", "held") /\ call[t].a = a)) =>
                        (~wbit'[a] /\ committed'[a] = value[a])
       /\ \A t \in Tasks :
            st[t] \in Failed =>
                (env[t] = EmptyEnv /\ call[t] = Idle /\ st'[t] = st[t])]_vars

\* One task has panicked before completing a call and the other was
\* cancelled; the caller's get() then holds the read lock of the cell, whose
\* value is what the two failed tasks left.
C14_Witness ==
    /\ \E t \in Tasks : st[t] = "panicked" /\ done[t] = 0
    /\ \E t \in Tasks : st[t] = "abandoned"
    /\ InCall(Caller, "get", "held")
    /\ value[One] # initial[One]

\* ------------------------------------------------------------ aliases
\* The caller holds a second handle to a cell (let b = a.clone()) and lists
\* both names in one launch.
AliasLists ==
    UNION {{vs \in [1..k -> Modes \X Names] :
               \A i, j \in 1..k : i # j => vs[i][2] # vs[j][2]} : k \in 0..MaxVars}

AliasSites ==
    {cs \in [vs : AliasLists, comma : BOOLEAN, u : SUBSET Names] :
        cs.u = ListedNames(cs.vs)}

NextAlias ==
    \/ \E n \in Cells, m \in Spare : Clone(Caller, n, m)
    \/ \E t \in Tasks, cs \in AliasSites : LaunchBegin(t, cs)
    \/ LaunchClone
    \/ LaunchLock
    \/ LaunchDrained
    \/ LaunchSpawn
    \/ \E t \in Tasks : TaskPoll(t)
    \/ \E t \in Tasks : TaskEnd(t)
    \/ \E t \in Tasks : AwaitBegin(t)
    \/ AwaitEnd

SpecAlias == InitCell /\ [][NextAlias]_vars

\* Two lock requests of the list are for one cell and one of them is mut.
Conflicting(l) ==
    \E i, j \in 1..Len(l.vs) :
        /\ i # j
        /\ env[Caller][l.vs[i][2]].kind = "handle"
        /\ env[Caller][l.vs[j][2]].kind = "handle"
        /\ env[Caller][l.vs[i][2]].a = env[Caller][l.vs[j][2]].a
        /\ l.vs[i][1] = "mut"
        /\ l.vs[j][1] # "bare"

\* C15: a launch whose list requests two locks on the same cell, at least one
\* of them mut, deadlocks: it never gets all its locks, never submits its
\* task, and the body never runs.
C15_DoubleBindDeadlocks ==
    [][(launch.active /\ Conflicting(launch)) =>
            /\ launch'.active
            /\ launch'.locks # <<>>
            /\ st'[launch.t] = "new"]_vars

\* The launch waits at its second lock while no task holds any guard: the
\* guard in its way is its own.
C15_Witness ==
    /\ LaunchBlocked
    /\ Conflicting(launch)
    /\ Len(SelectSeq(launch.trace, IsCloneStep)) = 2
    /\ \A t \in Tasks, n \in Names : env[t][n].kind \notin Guards

\* C16 as stated: a list that binds one cell with conflicting modes is
\* rejected at parse time; no expansion of it ever starts to run.
C16_Original == Conflicting(launch) => ~launch.active

\* C16 (amended): the parser accepts every list of pairs, whatever cells the
\* names denote and whatever the modes; a list binding one cell twice with
\* conflicting modes can be launched whenever any list can, its duplicates
\* are all performed before its first lock, and no task is submitted for it.
CanLaunch(t) ==
    /\ Free(Caller)
    /\ st[t] = "new"
    /\ \A t2 \in Tasks : t2 < t => st[t2] # "new"

EveryListParses ==
    \A cs \in AliasSites : Parse(<<>>, <<>>, Tokens(cs.vs, cs.comma)).ok

C16_ConflictReachesEmit ==
    /\ EveryListParses
    /\ \A t \in Tasks :
            CanLaunch(t) =>
                \A cs \in AliasSites :
                    (/\ \A n \in ListedNames(cs.vs) : env[Caller][n].kind = "handle"
                     /\ Conflicting(cs))
                        => ENABLED LaunchBegin(t, cs)
    /\ (launch.active /\ Conflicting(launch)) =>
            /\ st[launch.t] = "new"
            /\ IsPrefix(launch.trace, ExpectedSteps(launch.vs))
            /\ launch.locks # <<>>

\* A list with two conflicting requests for one cell has been expanded, has
\* made its two duplicates and has taken its first lock.
C16_Witness ==
    /\ launch.active
    /\ Conflicting(launch)
    /\ Len(SelectSeq(launch.trace, IsCloneStep)) = 2
    /\ Len(SelectSeq(launch.trace, IsLockStep)) = 1

\* ------------------------------------------------------------ the parser
\* tspawn!(tokens) for arbitrary token streams. A stream no rule accepts is
\* a compile error, and so is an expansion that binds a keyword as a variable
\* (`let ref = ..`): the program with that call site never runs.
TokAlphabet ==
    {Tok(k, 0) : k \in {"ref", "mut", "comma", "block", "other"}}
        \cup {Tok("id", n) : n \in Cells}

Streams == UNION {[1..k -> TokAlphabet] : k \in 0..MaxTokens}

Distinct(seq) == \A i, j \in 1..Len(seq) : i # j => seq[i] # seq[j]

Compiles(p) == p.ok /\ \A i \in 1..Len(p.clone) : p.clone[i] \in Names

\* The call site is compiled. An accepted list is launched (one whose
\* statements rebind a name is expanded but not run here).
Expand(t) ==
    /\ Free(Caller)
    /\ launch.parsed = "pending"
    /\ \A u \in Tasks : st[u] = "new"
    /\ t = 1
    /\ LET p == Parse(<<>>, <<>>, launch.input)
           names == {p.clone[i] : i \in 1..Len(p.clone)}
       IN
        /\ launch' = [launch EXCEPT
                        !.parsed = IF p.ok THEN "emit" ELSE "norule",
                        !.active = Compiles(p) /\ Distinct(p.clone),
                        !.t = t,
                        !.uses = IF Compiles(p) THEN names ELSE {},
                        !.clones = p.clone,
                        !.locks = p.lock]
        /\ st' = [st EXCEPT ![Caller] = IF Compiles(p) THEN "run" ELSE "rejected"]
    /\ UNCHANGED <<value, strong, readers, wbit, env, call, sched,
                   committed, initial, done>>

InitParse ==
    /\ initial = [a \in Alloc |-> 0]
    /\ value = initial
    /\ committed = initial
    /\ strong = [a \in Alloc |-> IF a \in Cells THEN 1 ELSE 0]
    /\ readers = [a \in Alloc |-> 0]
    /\ wbit = [a \in Alloc |-> FALSE]
    /\ call = [c \in Ctx |-> Idle]
    /\ done = [c \in Ctx |-> 0]
    /\ launch \in {[NoLaunch EXCEPT !.input = s] : s \in Streams}
    /\ env = [c \in Ctx |-> IF c = Caller THEN CallerEnv ELSE EmptyEnv]
    /\ st = [c \in Ctx |-> IF c = Caller THEN "run" ELSE "new"]
    /\ sched = [flavor |-> "multi_thread", workers |-> MaxWorkers]

NextParse ==
    \/ \E t \in Tasks : Expand(t)
    \/ LaunchClone
    \/ LaunchLock
    \/ LaunchSpawn
    \/ \E t \in Tasks : TaskPoll(t)
    \/ \E t \in Tasks : TaskEnd(t)

SpecParse == InitParse /\ [][NextParse]_vars

\* The streams of the launch syntax: pairs separated by commas, each an
\* optional ref or mut and a name, then the body, with or without a comma
\* before it.
StreamLists == UNION {[1..k -> Modes \X Cells] : k \in 0..MaxVars}

WellFormed(input) ==
    \E vs \in StreamLists, comma \in BOOLEAN : input = Tokens(vs, comma)

\* The same shape with a keyword allowed where the name stands.
IdentToks == {Tok("id", n) : n \in Cells} \cup {Tok("ref", 0), Tok("mut", 0)}

LooseLists == UNION {[1..k -> Modes \X IdentToks] : k \in 0..MaxVars}

LoosePair(pair) ==
    IF pair[1] = "bare" THEN <<pair[2]>> ELSE <<Tok(pair[1], 0), pair[2]>>

RECURSIVE LooseTokens(_, _)
LooseTokens(ws, comma) ==
    IF ws = <<>> THEN <<Tok("block", 0)>>
    ELSE IF Len(ws) = 1 /\ ~comma THEN LoosePair(ws[1]) \o <<Tok("block", 0)>>
    ELSE LoosePair(ws[1]) \o <<Tok("comma", 0)>> \o LooseTokens(Tail(ws), comma)

LooseStreams == {LooseTokens(ws, c) : ws \in LooseLists, c \in BOOLEAN}

Untouched ==
    /\ launch.trace = <<>>
    /\ \A t \in Tasks : st[t] = "new"
    /\ strong = [a \in Alloc |-> IF a \in Cells THEN 1 ELSE 0]
    /\ \A a \in Alloc : readers[a] = 0 /\ ~wbit[a]

C18_CloneNeverBlocks ==
    [][/\ (launch.active /\ launch.clones # <<>>) =>
            (st[Caller] = "run" /\ ENABLED LaunchClone)
       /\ \A m \in Spare :
            (Free(Caller) /\ env[Caller][m].kind = "unbound")
                => ENABLED Clone(Caller, One, m)
       /\ (launch.active /\ Len(launch'.clones) < Len(launch.clones)) =>
            (readers' = readers /\ wbit' = wbit /\ value' = value)]_vars

\* A launch has made its duplicate of a cell while a task holds the cell's
\* write guard.
C18_Witness ==
    /\ launch.active
    /\ launch.trace = <<<<"clone", One>>>>
    /\ \E t \in Tasks : env[t][One].kind = "write"

\* ------------------------------------------------------------ read locks
\* C19 as stated: read() is granted whenever no write guard is held on the
\* cell.
C19_Original ==
    \A a \in Alloc : WriteGuards(a) = 0 => CanLockShared(a)

\* C19 (amended): read() is granted exactly when no write guard is held on
\* the cell and no writer is waiting for it. Any number of read guards can be
\* live at once, and a read() issued while only read guards are held returns
\* a guard without waiting for them, unless a write() is already waiting for
\* those readers: then the read() waits behind the writer.
C19_ReadSharedUnlessWriter ==
    /\ \A a \in Alloc :
        /\ readers[a] = ReadGuards(a)
        /\ (WriteGuards(a) + PendingWriters(a) = 0) => CanLockShared(a)
        /\ (WriteGuards(a) + PendingWriters(a) > 0) => ~CanLockShared(a)
    /\ \A m \in Spare :
        (/\ Free(Caller)
         /\ env[Caller][m].kind = "unbound"
         /\ WriteGuards(One) + PendingWriters(One) = 0)
            => ENABLED Read(Caller, One, m)

\* The caller's read() has returned a guard while a task holds a read guard
\* on the same cell.
C19_Witness ==
    /\ \E m \in Spare : env[Caller][m] = ReadGuard(One, One)
    /\ \E t \in Tasks : env[t][One].kind = "read"
    /\ readers[One] >= 2

\* ------------------------------------------------------ blocking calls
\* read(), write(), get(), set() and update() return no Result: a call that
\* cannot take its lock parks the calling thread inside parking_lot until
\* the lock is handed to it. The call is issued here and granted in a later
\* step, so that a parked call is a state. done[c] also counts the read()
\* and write() calls c has issued.
LockOps == {"read", "write", "get", "set", "update"}
SharedOps == {"read", "get"}
GuardOps == {"read", "write"}

\* The increments that update() calls in progress on a will still store.
InFlight(a) ==
    Cardinality({c \in Ctx : call[c].op = "update" /\ call[c].a = a
                               /\ call[c].left > 0})

LockBegin(c, n, m, op, k) ==
    /\ Free(c)
    /\ done[c] < MaxCalls
    /\ env[c][n].kind = "handle"
    /\ op \in GuardOps => env[c][m].kind = "unbound"
    /\ LET a == env[c][n].a IN
        /\ op = "update" => value[a] + InFlight(a) + k <= MaxVal
        /\ call' = [call EXCEPT ![c] =
                       [op |-> op, a |-> a, stage |-> "park",
                        arg |-> IF op \in GuardOps THEN m ELSE k,
                        left |-> IF op = "update" THEN k ELSE 0,
                        tmp |-> IF op \in GuardOps THEN env[c][n].src ELSE 0]]
    /\ done' = [done EXCEPT ![c] = IF op \in GuardOps THEN @ + 1 ELSE @]
    /\ UNCHANGED <<value, strong, readers, wbit, env, st, launch, sched,
                   committed, initial>>

\* The parked call takes the lock: a shared lock while the WRITER bit is
\* clear; the WRITER bit while it is clear, and then the guard at once if no
\* reader is left.
LockGranted(c) ==
    /\ st[c] = "run"
    /\ call[c].stage = "park"
    /\ LET a == call[c].a
           op == call[c].op IN
        IF op \in SharedOps
        THEN /\ CanLockShared(a)
             /\ readers' = [readers EXCEPT ![a] = @ + 1]
             /\ IF op = "read"
                THEN /\ strong' = [strong EXCEPT ![a] = @ + 1]
                     /\ env' = [env EXCEPT ![c][call[c].arg] =
                                    ReadGuard(a, call[c].tmp)]
                     /\ call' = [call EXCEPT ![c] = Idle]
                ELSE /\ call' = [call EXCEPT ![c].stage = "held"]
                     /\ UNCHANGED <<strong, env>>
             /\ wbit' = wbit
        ELSE /\ CanLockExclusive(a)
             /\ wbit' = [wbit EXCEPT ![a] = TRUE]
             /\ IF ~Drained(a)
                THEN /\ call' = [call EXCEPT ![c].stage = "wait"]
                     /\ UNCHANGED <<strong, env>>
                ELSE IF op = "write"
                THEN /\ strong' = [strong EXCEPT ![a] = @ + 1]
                     /\ env' = [env EXCEPT ![c][call[c].arg] =
                                    WriteGuard(a, call[c].tmp)]
                     /\ call' = [call EXCEPT ![c] = Idle]
                ELSE /\ call' = [call EXCEPT ![c].stage = "held",
                                             ![c].tmp = value[a]]
                     /\ UNCHANGED <<strong, env>>
             /\ readers' = readers
    /\ UNCHANGED <<value, st, launch, sched, committed, initial, done>>

\* The caller hands a clone of the cell to each task (tspawn!(a, { .. })) and
\* every context then calls the cell API, holding the guards of read() and
\* write() for as long as it likes; a task may finish or panic with a guard.
NextBlock ==
    \/ \E t \in Tasks : LaunchBegin(t, CounterSite)
    \/ LaunchClone
    \/ LaunchSpawn
    \/ \E t \in Tasks : TaskPoll(t)
    \/ \E c \in Ctx, m \in Spare, op \in LockOps : LockBegin(c, One, m, op, 1)
    \/ \E c \in Ctx : LockGranted(c)
    \/ \E c \in Ctx : WriteDrained(c)
    \/ \E c \in Ctx : GetEnd(c)
    \/ \E c \in Ctx : SetEnd(c)
    \/ \E c \in Ctx : UpdateStep(c)
    \/ \E c \in Ctx : UpdateEnd(c)
    \/ \E c \in Ctx, m \in Spare : Drop(c, m)
    \/ \E t \in Tasks : TaskEnd(t)
    \/ \E t \in Tasks : TaskPanic(t)

\* A context that is on a thread takes its next step inside the cell API: a
\* parked thread is woken when its lock can be taken, and the library's own
\* code between lock and unlock runs to its end. Nothing obliges a context to
\* drop a guard it was given.
FairBlock ==
    \A c \in Ctx :
        /\ WF_vars(LockGranted(c))
        /\ WF_vars(WriteDrained(c))
        /\ WF_vars(GetEnd(c))
        /\ WF_vars(SetEnd(c))
        /\ WF_vars(UpdateStep(c))
        /\ WF_vars(UpdateEnd(c))

SpecBlock == InitCell /\ [][NextBlock]_vars /\ FairBlock

Blocked(c) == call[c].stage \in {"park", "wait"}
HoldsGuard(c) == \E m \in Names : env[c][m].kind \in Guards

Granted(c) ==
    \/ call'[c].stage = "held"
    \/ /\ call'[c] = Idle
       /\ \E m \in Names :
            /\ env[c][m].kind = "unbound"
            /\ env'[c][m].kind = (IF call[c].op = "read" THEN "read" ELSE "write")
            /\ env'[c][m].a = call[c].a

\* C20: lock acquisition blocks and never fails. A blocked call leaves its
\* wait only with its lock (a guard, or the lock get/set/update work under),
\* also after a holder has panicked; a blocked read-type call can proceed as
\* soon as no write guard is held and no writer waits, a blocked write-type
\* call as soon as no guard at all is held; and if every context that holds a
\* guard eventually drops it, every blocked call eventually returns
\* (P ~> ~P written as []<>~P).
C20_BlocksNeverFails ==
    /\ [][\A c \in Ctx :
            (Blocked(c) /\ call'[c] # call[c]) =>
                \/ call[c].stage = "park" /\ call'[c] = [call[c] EXCEPT !.stage = "wait"]
                \/ Granted(c)]_vars
    /\ [](\A c \in Ctx :
            (Blocked(c) /\ st[c] = "run") =>
                LET a == call[c].a IN
                    /\ (call[c].op \in SharedOps
                            /\ WriteGuards(a) + PendingWriters(a) = 0)
                        => ENABLED LockGranted(c)
                    /\ (call[c].stage = "park"
                            /\ ReadGuards(a) + WriteGuards(a) + PendingWriters(a) = 0)
                        => ENABLED LockGranted(c)
                    /\ (call[c].stage = "wait"
                            /\ ReadGuards(a) + WriteGuards(a) = 0)
                        => ENABLED WriteDrained(c))
    /\ (\A c \in Ctx : []<>~HoldsGuard(c))
            => \A c \in Ctx : []<>~Blocked(c)

\* A read() is parked behind a set() that waits for the read guard of a third
\* context, on a cell whose earlier holder has panicked.
C20_Witness ==
    \E c, w, r \in Ctx :
        /\ call[c].op = "read" /\ call[c].stage = "park"
        /\ call[w].op = "set" /\ call[w].stage = "wait"
        /\ HoldsGuard(r)
        /\ call[c].a = One /\ call[w].a = One
        /\ readers[One] = 1

\* ------------------------------------------------------------ ownership
\* The caller launches tasks on one cell, takes guards and clones of its
\* own, and drops any of its bindings, its first handle included; a cell
\* that was destroyed gives its place to the next A::new.
OwnSites ==
    {cs \in CallSites : Len(cs.vs) = 1 /\ ListedNames(cs.vs) = {One} /\ cs.comma}

NextOwn ==
    \/ \E t \in Tasks, cs \in OwnSites : LaunchBegin(t, cs)
    \/ LaunchClone
    \/ LaunchLock
    \/ LaunchDrained
    \/ LaunchSpawn
    \/ \E t \in Tasks : TaskPoll(t)
    \/ \E t \in Tasks : GuardWrite(t, One)
    \/ \E t \in Tasks : TaskEnd(t)
    \/ \E m \in Spare, v \in InitVals \ {0} : New(Caller, m, v)
    \/ \E m \in Spare : Clone(Caller, One, m)
    \/ \E m \in Spare : Read(Caller, One, m)
    \/ \E n \in Names : Drop(Caller, n)

SpecOwn == InitCell /\ [][NextOwn]_vars

\* The references to an allocation: every handle and every guard bound in a
\* context or in the block of a launch in progress, and the clones of that
\* block that a guard of the same name has shadowed.
Refs(a) ==
    Cardinality({cn \in Ctx \X Names :
                    env[cn[1]][cn[2]].kind # "unbound" /\ env[cn[1]][cn[2]].a = a})
    + Cardinality({n \in Names :
                    launch.scope[n].kind # "unbound" /\ launch.scope[n].a = a})
    + Shadowed(a)

Destroyed(a) == strong[a] = 0

\* C21: the value of a cell is destroyed exactly when the last handle or
\* guard referring to it is dropped: the reference count of the allocation
\* is the number of live handles and guards, so the cell is never destroyed
\* while one exists, and the step in which the last one is dropped destroys
\* it. Until then the value changes only through a write lock.
C21_DestroyedWithLastRef ==
    [][\A a \in Alloc :
        /\ strong[a] = Refs(a)
        /\ Destroyed(a) <=> Refs(a) = 0
        /\ (~Destroyed(a) /\ Destroyed(a)') => (Refs(a) = 1 /\ Refs(a)' = 0)
        /\ (~Destroyed(a) /\ value'[a] # value[a]) => (wbit[a] /\ ~Destroyed(a)')]_vars

\* The caller has dropped every handle it had to the cell; a running task
\* holds the write guard the launch took, which is the only reference left,
\* and has written through it.
C21_Witness ==
    \E t \in Tasks :
        /\ st[t] = "run"
        /\ env[t][One] = WriteGuard(One, One)
        /\ \A n \in Names : env[Caller][n].kind = "unbound" \/ env[Caller][n].a # One
        /\ ~launch.active
        /\ strong[One] = 1
        /\ value[One] # initial[One]

\* ------------------------------------------------- from_inner / into_inner
\* An Arc<RwLock<T>> the program holds outside of A<T>.
RawArc(a, s) == [kind |-> "arc", a |-> a, src |-> s]

\* Arc::new(RwLock::new(v)) bound to the name m.
ArcNew(c, m, v) ==
    /\ Free(c)
    /\ env[c][m].kind = "unbound"
    /\ \E a \in Alloc :
        /\ strong[a] = 0
        /\ \A b \in Alloc : strong[b] = 0 => a <= b
        /\ strong' = [strong EXCEPT ![a] = 1]
        /\ value' = [value EXCEPT ![a] = v]
        /\ committed' = [committed EXCEPT ![a] = v]
        /\ initial' = [initial EXCEPT ![a] = v]
        /\ env' = [env EXCEPT ![c][m] = RawArc(a, a)]
    /\ UNCHANGED <<readers, wbit, call, st, launch, sched, done>>

\* Arc::clone(&l) of a raw Arc.
RawClone(c, n, m) ==
    /\ Free(c)
    /\ env[c][n].kind = "arc"
    /\ env[c][m].kind = "unbound"
    /\ strong' = [strong EXCEPT ![env[c][n].a] = @ + 1]
    /\ env' = [env EXCEPT ![c][m] = RawArc(env[c][n].a, env[c][n].src)]
    /\ UNCHANGED <<value, readers, wbit, call, st, launch, sched, committed, initial, done>>

\* *l.write() = v on a raw Arc: lock, store, unlock.
RawStore(c, n, v) ==
    /\ Free(c)
    /\ env[c][n].kind = "arc"
    /\ LET a == env[c][n].a IN
        /\ CanLockExclusive(a) /\ Drained(a)
        /\ value' = [value EXCEPT ![a] = v]
        /\ committed' = [committed EXCEPT ![a] = v]
    /\ UNCHANGED <<strong, readers, wbit, env, call, st, launch, sched, initial, done>>

\* drop(l) of a raw Arc.
RawDrop(c, m) ==
    /\ Free(c)
    /\ env[c][m].kind = "arc"
    /\ strong' = [strong EXCEPT ![env[c][m].a] = @ - 1]
    /\ env' = [env EXCEPT ![c][m] = Unbound]
    /\ UNCHANGED <<value, readers, wbit, call, st, launch, sched, committed, initial, done>>

\* A { value } and self.value: the Arc is moved into or out of the struct.
\* (a wrapper that moves the value into a lock of its own when it can)
MoveArcRewrapped(a) ==
    IF \E b \in Alloc : strong[b] = 0
    THEN CHOOSE b \in Alloc : strong[b] = 0
    ELSE a

MoveArc(a) == a

\* The Arc bound to n moves into an allocation-preserving binding of the
\* other kind under the name m: the reference leaves one owner for the other.
Rewrap(c, n, m, from, to) ==
    /\ Free(c)
    /\ env[c][n].kind = from
    /\ env[c][m].kind = "unbound"
    /\ LET a == env[c][n].a
           b == MoveArc(a)
       IN
        /\ strong' = [[strong EXCEPT ![a] = @ - 1] EXCEPT ![b] = @ + 1]
        /\ env' = [env EXCEPT ![c][n] = Unbound,
                              ![c][m] = [kind |-> to, a |-> b, src |-> env[c][n].src]]
    /\ UNCHANGED <<value, readers, wbit, call, st, launch, sched, committed, initial, done>>

\* A::from_inner(l)
FromInner(c, n, m) == Rewrap(c, n, m, "arc", "handle")

\* data.into_inner()
IntoInner(c, n, m) == Rewrap(c, n, m, "handle", "arc")

\* Nothing has been constructed yet.
InitInner ==
    /\ initial = [a \in Alloc |-> 0]
    /\ value = initial
    /\ committed = initial
    /\ strong = [a \in Alloc |-> 0]
    /\ readers = [a \in Alloc |-> 0]
    /\ wbit = [a \in Alloc |-> FALSE]
    /\ call = [c \in Ctx |-> Idle]
    /\ done = [c \in Ctx |-> 0]
    /\ launch = NoLaunch
    /\ env = [c \in Ctx |-> EmptyEnv]
    /\ st = [c \in Ctx |-> IF c = Caller THEN "run" ELSE "new"]
    /\ sched = [flavor |-> "multi_thread", workers |-> MaxWorkers]

\* test_from_and_into_inner, with clones of the Arc and of the handle kept
\* on the side and writes through both.
NextInner ==
    \/ \E m \in Names, v \in InitVals : ArcNew(Caller, m, v)
    \/ \E n, m \in Names : RawClone(Caller, n, m)
    \/ \E n \in Names, v \in {MaxVal} : RawStore(Caller, n, v)
    \/ \E n \in Names : RawDrop(Caller, n)
    \/ \E n, m \in Names : FromInner(Caller, n, m)
    \/ \E n, m \in Names : IntoInner(Caller, n, m)
    \/ \E n, m \in Names : Clone(Caller, n, m)
    \/ \E n \in Names : GetBegin(Caller, n)
    \/ GetEnd(Caller)
    \/ \E n \in Names, v \in InitVals : SetBegin(Caller, n, v)
    \/ SetEnd(Caller)
    \/ \E n \in Names : env[Caller][n].kind = "handle" /\ Drop(Caller, n)

SpecInner == InitInner /\ [][NextInner]_vars

Bound(c) == {env[c][n] : n \in Names} \ {Unbound}

\* A step that turns the binding n of kind from into the binding m of kind to.
Rewrapped(c, n, m, from, to) ==
    /\ env[c][n].kind = from
    /\ env[c][m].kind = "unbound"
    /\ env'[c][n].kind = "unbound"
    /\ env'[c][m].kind = to

\* C22: from_inner and into_inner wrap transparently. The handle made by
\* from_inner(l) refers to the allocation of l, and the Arc returned by
\* into_inner() to the allocation of the handle; the step changes neither
\* the value, nor the lock, nor the reference count. So every Arc and every
\* handle that stem from one Arc::new or A::new share one value and one
\* lock, and a set() through a handle stores the value that the Arcs it was
\* made from, or that were made from it, then hold.
C22_TransparentWrap ==
    [][/\ \A b1, b2 \in Bound(Caller) : b1.src = b2.src => b1.a = b2.a
       /\ \A n, m \in Names :
            (Rewrapped(Caller, n, m, "arc", "handle")
                \/ Rewrapped(Caller, n, m, "handle", "arc")) =>
                /\ env'[Caller][m].a = env[Caller][n].a
                /\ env'[Caller][m].src = env[Caller][n].src
                /\ value' = value /\ committed' = committed
                /\ strong' = strong /\ readers' = readers /\ wbit' = wbit
       /\ \A h, l \in Bound(Caller) :
            (/\ h.kind = "handle" /\ l.kind = "arc" /\ h.src = l.src
             /\ InCall(Caller, "set", "held") /\ call[Caller].a = h.a
             /\ call'[Caller] = Idle)
                => value'[l.a] = call[Caller].arg
       /\ \A a \in Alloc : strong[a] = Refs(a)]_vars

\* test_from_and_into_inner with an observer: an Arc was wrapped by
\* from_inner, the handle unwrapped again by into_inner, a clone of the first
\* Arc was written through meanwhile, and a get() through a clone of the
\* handle reads the written value from the allocation all of them share.
C22_Witness ==
    \E n, m, k \in Names :
        /\ n # m
        /\ env[Caller][n].kind = "arc"
        /\ env[Caller][m].kind = "arc"
        /\ env[Caller][k].kind = "handle"
        /\ env[Caller][n].src = env[Caller][k].src
        /\ env[Caller][m].src = env[Caller][k].src
        /\ InCall(Caller, "get", "held")
        /\ call[Caller].a = env[Caller][n].a
        /\ value[call[Caller].a] = MaxVal
        /\ initial[call[Caller].a] # MaxVal

\* ------------------------------------------------------ release at the end
\* No context but the caller holds or awaits a lock, and the caller holds
\* no guard of its own.
OnlyCallerLeft ==
    /\ \A t \in Tasks : env[t] = EmptyEnv /\ call[t] = Idle
    /\ \A n \in Names : env[Caller][n].kind \notin Guards

\* C23: the step in which a task's body finishes releases every guard the
\* task held; a task that has finished holds nothing, so once the caller has
\* awaited the handle and no other context holds the cell, get(), read() and
\* write() through the caller's own handle are granted at once; and the step
\* in which get(), set() or update() returns gives back the lock it took.
C23_ReleasedAtEnd ==
    [][/\ \A t \in Tasks :
            (st[t] = "run" /\ st'[t] = "done") =>
                /\ env'[t] = EmptyEnv
                /\ \A a \in Alloc :
                    /\ readers'[a] = readers[a] - Held(env[t], Names, {"read"}, a)
                    /\ Held(env[t], Names, {"write"}, a) > 0 => ~wbit'[a]
       /\ \A t \in Tasks : st[t] = "done" => (env[t] = EmptyEnv /\ call[t] = Idle)
       /\ (Free(Caller) /\ OnlyCallerLeft) =>
            /\ ~wbit[One] /\ readers[One] = 0
            /\ done[Caller] < MaxCalls => ENABLED GetBegin(Caller, One)
            /\ \A m \in Spare :
                env[Caller][m].kind = "unbound" =>
                    /\ ENABLED Read(Caller, One, m)
                    /\ ENABLED (Write(Caller, One, m) /\ env'[Caller][m].kind = "write")
       /\ \A c \in Ctx :
            (call[c].stage = "held" /\ call'[c] = Idle) =>
                LET a == call[c].a IN
                    /\ call[c].op = "get" => readers'[a] = readers[a] - 1
                    /\ call[c].op \in {"set", "update"} => (wbit[a] /\ ~wbit'[a])]_vars

\* test_tspawn_mut: the task launched with mut has written and finished, the
\* caller has awaited its handle, and the caller's get() holds the read lock
\* and sees the new value.
C23_Witness ==
    \E t \in Tasks :
        /\ st[t] = "done"
        /\ \A u \in Tasks \ {t} : st[u] = "new"
        /\ st[Caller] = "run"
        /\ InCall(Caller, "get", "held")
        /\ call[Caller].a = One
        /\ value[One] = initial[One] + 1
        /\ done = [c \in Ctx |-> 0]
        /\ readers[One] = 1 /\ ~wbit[One]

\* ------------------------------------------------------------ two cells
\* One task is launched with tspawn!(mut x, mut y, { *x += 1; *y += 1; }),
\* with the two cells listed in either order, and another with
\* tspawn!(x, y, { let pair = (x.get(), y.get()); }), reading the cells in
\* either order; the caller launches the two in either order.
PairCells == {1, 2}

WriterSites ==
    {cs \in CallSites :
        /\ Len(cs.vs) = 2
        /\ \A i \in 1..2 : cs.vs[i][1] = "mut"
        /\ cs.u = PairCells /\ cs.comma}

ObserverSites ==
    {cs \in CallSites :
        /\ cs.vs = <<<<"bare", 1>>, <<"bare", 2>>>>
        /\ cs.u = PairCells /\ cs.comma}

Updated(a) == value[a] # initial[a]

WriterLaunched ==
    \/ launch.active /\ launch.vs # <<>> /\ launch.vs[1][1] = "mut"
    \/ \E a \in PairCells : wbit[a] \/ Updated(a)

ObserverLaunched ==
    \/ launch.active /\ launch.vs # <<>> /\ launch.vs[1][1] = "bare"
    \/ \E t \in Tasks : st[t] # "new" /\ (env[t][1].kind = "handle" \/ done[t] = 1)

\* (x.get(), ..): the first component is evaluated; get() takes the read
\* lock, clones the value and releases the lock.
ObserveFirst(t, n) ==
    /\ Free(t)
    /\ done[t] = 0
    /\ env[t][n].kind = "handle"
    /\ LET a == env[t][n].a IN
        /\ CanLockShared(a)
        /\ call' = [call EXCEPT ![t] =
                       [Idle EXCEPT !.op = "pair", !.stage = "first",
                                    !.a = n, !.tmp = value[a]]]
    /\ UNCHANGED <<value, strong, readers, wbit, env, st, launch, sched,
                   committed, initial, done>>

\* (.., y.get()): the second component, on the other cell.
ObserveSecond(t) ==
    /\ st[t] = "run"
    /\ InCall(t, "pair", "first")
    /\ \E n \in PairCells \ {call[t].a} :
        /\ env[t][n].kind = "handle"
        /\ CanLockShared(env[t][n].a)
        /\ call' = [call EXCEPT ![t].stage = "both",
                                ![t].arg = value[env[t][n].a]]
    /\ UNCHANGED <<value, strong, readers, wbit, env, st, launch, sched,
                   committed, initial, done>>

\* The pair goes out of use.
ObserveEnd(t) ==
    /\ st[t] = "run"
    /\ InCall(t, "pair", "both")
    /\ call' = [call EXCEPT ![t] = Idle]
    /\ done' = [done EXCEPT ![t] = 1]
    /\ UNCHANGED <<value, strong, readers, wbit, env, st, launch, sched,
                   committed, initial>>

InitPair ==
    /\ InitCells(PairCells, InitVals)
    /\ env = [c \in Ctx |-> IF c = Caller THEN CallerEnv ELSE EmptyEnv]
    /\ st = [c \in Ctx |-> IF c = Caller THEN "run" ELSE "new"]
    /\ sched \in Runtimes

NextPair ==
    \/ \E t \in Tasks, cs \in WriterSites : ~WriterLaunched /\ LaunchBegin(t, cs)
    \/ \E t \in Tasks, cs \in ObserverSites : ~ObserverLaunched /\ LaunchBegin(t, cs)
    \/ LaunchClone
    \/ LaunchLock
    \/ LaunchSpawn
    \/ \E t \in Tasks : TaskPoll(t)
    \/ \E t \in Tasks, n \in PairCells :
            env[t][n].kind = "write" /\ ~Updated(env[t][n].a) /\ GuardWrite(t, n)
    \/ \E t \in Tasks, n \in PairCells : ObserveFirst(t, n)
    \/ \E t \in Tasks : ObserveSecond(t)
    \/ \E t \in Tasks : ObserveEnd(t)
    \/ \E t \in Tasks :
            /\ \/ done[t] = 1
               \/ \A n \in PairCells : env[t][n].kind = "write" /\ Updated(env[t][n].a)
            /\ TaskEnd(t)
    \/ \E t \in Tasks : AwaitBegin(t)
    \/ AwaitEnd

SpecPair == InitPair /\ [][NextPair]_vars

\* The pair a reader has obtained: the cell it read first and the two values.
SecondCell(t) == CHOOSE n \in PairCells : n # call[t].a
GotOld(n, v) == v = initial[n]
GotNew(n, v) == v = initial[n] + 1

\* C24: the locks exclude per cell only. A reader that calls get() on the
\* two cells one after the other can obtain the value of the first before
\* the update together with the value of the second after it (the witness),
\* because nothing ties its two calls together. What the launch does
\* guarantee, having taken both write locks before the body runs: while the
\* body is between its two updates neither cell can be read, every value
\* read is the one before or the one after the update, and the cell read
\* second is never the one that is behind.
C24_PerCellOnly ==
    /\ \A t \in Tasks :
        (\A n \in PairCells : env[t][n].kind = "write") =>
            \A n \in PairCells : ~CanLockShared(n)
    /\ \A t \in Tasks :
        InCall(t, "pair", "both") =>
            LET n1 == call[t].a
                n2 == SecondCell(t)
            IN  /\ GotOld(n1, call[t].tmp) \/ GotNew(n1, call[t].tmp)
                /\ GotOld(n2, call[t].arg) \/ GotNew(n2, call[t].arg)
                /\ ~(GotNew(n1, call[t].tmp) /\ GotOld(n2, call[t].arg))

\* The reader holds the not yet updated value of the cell it read first and
\* the updated value of the other, while the writer has updated both.
C24_Witness ==
    \E t \in Tasks :
        /\ InCall(t, "pair", "both")
        /\ GotOld(call[t].a, call[t].tmp)
        /\ GotNew(SecondCell(t), call[t].arg)
        /\ \A n \in PairCells : Updated(n)

\* ------------------------------------------------ conflicting launches
\* complex_types.rs / multiple_tasks.rs: the caller issues tspawn!(mut x, ..)
\* and tspawn!(ref x, ..) one after the other on one cell; a body may or may
\* not refer to x. Each launch conflicts with the ones before it: a ref
\* launch is the first one, or follows a mut launch whose task holds x.
SerialSites ==
    {cs \in CallSites :
        /\ Len(cs.vs) = 1
        /\ cs.vs[1][2] = One
        /\ cs.vs[1][1] # "bare"
        /\ cs.comma}

ConflictsWithEarlier(cs) ==
    \/ cs.vs[1][1] = "mut"
    \/ \A t \in Tasks : st[t] = "new"
    \/ \E t \in Tasks : st[t] \in {"queued", "run", "susp"} /\ env[t][One].kind = "write"

NextSerial ==
    \/ \E t \in Tasks, cs \in SerialSites :
            ConflictsWithEarlier(cs) /\ LaunchBegin(t, cs)
    \/ LaunchClone
    \/ LaunchLock
    \/ LaunchDrained
    \/ LaunchSpawn
    \/ \E t \in Tasks : TaskPoll(t)
    \/ \E t \in Tasks : BodyAwait(t)
    \/ \E t \in Tasks : TaskWake(t)
    \/ \E t \in Tasks : GuardWrite(t, One)
    \/ \E t \in Tasks : TaskEnd(t)
    \/ \E t \in Tasks : TaskAbandon(t)
    \/ \E t \in Tasks : AwaitBegin(t)
    \/ AwaitEnd

SpecSerial == InitCounter /\ [][NextSerial]_vars

Started == {"run", "susp"}

\* C25 as stated: of two launches that conflict on a cell, the body of the
\* second does not start before the body of the first has finished.
C25_Original ==
    \A t1, t2 \in Tasks :
        (t1 < t2 /\ st[t2] \in Started) => st[t1] \notin Live

\* C25 (amended): when the body of the first launch refers to the bound
\* variable, so that its task holds the guard, the second launch does not
\* even submit its task before the first task has finished or was abandoned:
\* the two bodies never overlap and run in launch order. A first body that
\* does not refer to the variable holds nothing, and the second body can
\* start while it runs.
C25_SerialWhenCaptured ==
    /\ \A t1, t2 \in Tasks :
        (t1 < t2 /\ st[t1] \in Live /\ env[t1][One].kind \in Guards)
            => st[t2] = "new"
    /\ \A t \in Tasks : env[t][One].kind \in Guards => st[t] \in Live

\* The first task has written through its write guard and finished; the
\* second, launched meanwhile, runs with the guard its launch waited for.
C25_Witness ==
    \E t1, t2 \in Tasks :
        /\ t1 < t2
        /\ st[t1] = "done"
        /\ st[t2] = "run"
        /\ env[t2][One].kind \in Guards
        /\ value[One] = initial[One] + 1
        /\ st[Caller] = "run"
        /\ sched.flavor = "multi_thread"

\* --------------------------------------------------- one cell, ref twice
\* let b = a.clone(); tspawn!(a, { a.set(v); }); tspawn!(ref a, ref b, { .. });
\* in either order: one launch binds the cell twice for reading under two
\* names, while a task of the other launch writes to it with set().
SharedSites ==
    {cs \in AliasSites :
        /\ Len(cs.vs) = 2
        /\ \A i \in 1..2 : cs.vs[i][1] = "ref"
        /\ cs.comma}

\* The list requests two read locks on one cell.
SharedTwice(l) ==
    /\ Len(l.vs) = 2
    /\ \A i \in 1..2 : l.vs[i][1] = "ref"
    /\ env[Caller][l.vs[1][2]].kind = "handle"
    /\ env[Caller][l.vs[2][2]].kind = "handle"
    /\ env[Caller][l.vs[1][2]].a = env[Caller][l.vs[2][2]].a

NextShared ==
    \/ \E m \in Spare : Clone(Caller, One, m)
    \/ \E t \in Tasks : LaunchBegin(t, CounterSite)
    \/ \E t \in Tasks, cs \in SharedSites :
            SharedTwice([vs |-> cs.vs]) /\ LaunchBegin(t, cs)
    \/ LaunchClone
    \/ LaunchLock
    \/ LaunchSpawn
    \/ \E t \in Tasks : TaskPoll(t)
    \/ \E t \in Tasks, v \in InitVals : SetBegin(t, One, v)
    \/ \E t \in Tasks : WriteDrained(t)
    \/ \E t \in Tasks : SetEnd(t)
    \/ \E t \in Tasks : TaskEnd(t)

SpecShared == InitCell /\ [][NextShared]_vars

\* C26 as stated: a launch that requests two read locks on one cell never
\* deadlocks, whatever the other tasks do: while it is in progress, the
\* launch or some task can take a step.
C26_Original ==
    (launch.active /\ SharedTwice(launch)) => ENABLED NextShared

\* The cell a launch in progress binds with its first pair.
FirstCell == env[Caller][launch.vs[1][2]].a

\* A step of the launch in progress.
LaunchStep == LaunchClone \/ LaunchLock \/ LaunchSpawn

\* C26 (amended): a launch that requests two read locks on one cell gets
\* both and submits its task with the two guards provided no other context
\* holds or starts waiting for the write lock of that cell before the second
\* request: while there is no such writer the launch can always take its
\* next step, and if it is ever blocked a writer is there. A set() that
\* starts waiting between the two requests waits for the first read guard
\* while the second read() waits behind it: from then on the launch makes no
\* step and the writer is never served.
C26_SharedTwiceUnlessWriter ==
    [][(launch.active /\ SharedTwice(launch)) =>
        /\ (WriteGuards(FirstCell) + PendingWriters(FirstCell) = 0)
                => (~LaunchBlocked /\ ENABLED LaunchStep)
        /\ LaunchBlocked =>
                /\ WriteGuards(FirstCell) + PendingWriters(FirstCell) = 1
                /\ (PendingWriters(FirstCell) = 1 /\ readers[FirstCell] > 0
                        /\ ReadGuards(FirstCell) = 1)
                    => (launch' = launch /\ call' = call)
        /\ Spawning =>
                \A i \in 1..2 :
                    env'[launch.t][launch.vs[i][2]].kind = "read"]_vars

\* The task launched with ref a, ref b on one cell runs with both read
\* guards while another task's set() waits for them.
C26_Witness ==
    \E t, w \in Tasks :
        /\ st[t] = "run"
        /\ env[t][One] = ReadGuard(One, One)
        /\ \E m \in Spare : env[t][m] = ReadGuard(One, One)
        /\ InCall(w, "set", "wait")
        /\ readers[One] = 2

\* ------------------------------------------------ two launching contexts
\* Two cells and more than one context that launches: the caller, with
\* tspawn!(mut x, mut y, { .. }) or tspawn!(mut y, mut x, { .. }), and every
\* task but the first, which was handed clones of both cells with
\* tokio::spawn(async move { tspawn!(mut .., mut .., { .. }); }) and issues
\* one such launch itself. The block of a launch issued by a task is kept
\* in the task's own record: call[t] holds the first cell of its list and
\* the statements still to run, and the guards are bound in env[t], where
\* they shadow the handles. When its launch returns the launching body is
\* over, and its slot stands for the task it has launched (done[t] = 1).
Launchers == {t \in Tasks : \E u \in Tasks : u < t}

OtherCell(n) == CHOOSE m \in PairCells : m # n

\* The cell of the next lock statement: declaration order.
\* (lock statements that run in the reverse of the declaration order)
LockTargetReversed(first, left) == IF left = 2 THEN OtherCell(first) ELSE first

LockTarget(first, left) == IF left = 2 THEN first ELSE OtherCell(first)

InLaunch(t) == call[t].op = "tspawn"

\* let first = Clone::clone(&first);
NestedBegin(t, first) ==
    /\ t \in Launchers
    /\ Free(t)
    /\ done[t] = 0
    /\ \A n \in PairCells : env[t][n].kind = "handle"
    /\ strong' = [strong EXCEPT ![env[t][first].a] = @ + 1]
    /\ call' = [call EXCEPT ![t] =
                   [Idle EXCEPT !.op = "tspawn", !.a = first,
                                !.stage = "clone", !.left = 1]]
    /\ UNCHANGED <<value, readers, wbit, env, st, launch, sched,
                   committed, initial, done>>

\* let second = Clone::clone(&second);
NestedClone(t) ==
    /\ st[t] = "run"
    /\ InLaunch(t)
    /\ call[t].stage = "clone"
    /\ strong' = [strong EXCEPT ![env[t][OtherCell(call[t].a)].a] = @ + 1]
    /\ call' = [call EXCEPT ![t].stage = "lock", ![t].left = 2]
    /\ UNCHANGED <<value, readers, wbit, env, st, launch, sched,
                   committed, initial, done>>

\* let mut var = var.write();  in the thread of the launching task.
NestedLock(t) ==
    /\ st[t] = "run"
    /\ InLaunch(t)
    /\ call[t].stage = "lock"
    /\ call[t].left > 0
    /\ LET n == LockTarget(call[t].a, call[t].left)
           a == env[t][n].a
       IN
        /\ CanLockExclusive(a)
        /\ Drained(a)
        /\ wbit' = [wbit EXCEPT ![a] = TRUE]
        /\ strong' = [strong EXCEPT ![a] = @ + 1]
        /\ env' = [env EXCEPT ![t][n] = WriteGuard(a, env[t][n].src)]
    /\ call' = [call EXCEPT ![t].left = @ - 1]
    /\ UNCHANGED <<value, readers, st, launch, sched, committed, initial, done>>

\* tokio::spawn(async move { .. }) queues the future with the two guards;
\* the clones and the launching body's own handles are dropped as the
\* launching body ends.
NestedSpawn(t) ==
    /\ st[t] = "run"
    /\ InLaunch(t)
    /\ call[t].stage = "lock"
    /\ call[t].left = 0
    /\ strong' = [a \in Alloc |-> IF a \in PairCells THEN strong[a] - 2 ELSE strong[a]]
    /\ st' = [st EXCEPT ![t] = "queued"]
    /\ call' = [call EXCEPT ![t] = Idle]
    /\ done' = [done EXCEPT ![t] = 1]
    /\ UNCHANGED <<value, readers, wbit, env, launch, sched, committed, initial>>

InitOrder ==
    /\ initial = [a \in Alloc |-> 0]
    /\ value = initial
    /\ committed = initial
    /\ strong = [a \in Alloc |-> IF a \in PairCells
                                 THEN 1 + Cardinality(Launchers) ELSE 0]
    /\ readers = [a \in Alloc |-> 0]
    /\ wbit = [a \in Alloc |-> FALSE]
    /\ call = [c \in Ctx |-> Idle]
    /\ done = [c \in Ctx |-> 0]
    /\ launch = NoLaunch
    /\ env = [c \in Ctx |-> IF c = Caller \/ c \in Launchers THEN CallerEnv
                            ELSE EmptyEnv]
    /\ st = [c \in Ctx |-> IF c = Caller THEN "run"
                           ELSE IF c \in Launchers THEN "queued" ELSE "new"]
    /\ sched \in [flavor : {"multi_thread"}, workers : 1..MaxWorkers]

CallerLaunch ==
    \/ \E t \in Tasks, cs \in WriterSites : LaunchBegin(t, cs)
    \/ LaunchClone
    \/ LaunchLock
    \/ LaunchSpawn

TaskLaunch(t) ==
    \/ \E first \in PairCells : NestedBegin(t, first)
    \/ NestedClone(t)
    \/ NestedLock(t)
    \/ NestedSpawn(t)

\* The body of a launched task ends; it takes no lock of its own.
LaunchedEnd(t) == (t \in Launchers => done[t] = 1) /\ TaskEnd(t)

NextOrder ==
    \/ CallerLaunch
    \/ \E t \in Tasks : TaskLaunch(t)
    \/ \E t \in Tasks : TaskPoll(t)
    \/ \E t \in Tasks : LaunchedEnd(t)

\* A fair scheduler polls every queued task when a worker is free; a thread
\* that runs takes its next step; a body terminates.
FairOrder ==
    /\ WF_vars(CallerLaunch)
    /\ \A t \in Tasks :
        /\ WF_vars(TaskLaunch(t))
        /\ WF_vars(TaskPoll(t))
        /\ WF_vars(LaunchedEnd(t))

SpecOrder == InitOrder /\ [][NextOrder]_vars /\ FairOrder

\* Every launch in progress lists the cells in the order of their numbers.
ConsistentOrder ==
    /\ launch.active => launch.vs[1][2] = One
    /\ \A t \in Tasks : InLaunch(t) => call[t].a = One

\* Two launches in progress list the cells in opposite orders.
OppositeOrders ==
    \/ \E t \in Tasks : launch.active /\ InLaunch(t) /\ launch.vs[1][2] # call[t].a
    \/ \E t, u \in Tasks : InLaunch(t) /\ InLaunch(u) /\ call[t].a # call[u].a

\* A launcher that waits for a lock keeps its worker: there is a worker for
\* every task.
EnoughWorkers == sched.workers >= NumTasks

\* No launch is in progress and every task that was submitted has finished.
Quiet ==
    /\ ~launch.active
    /\ \A t \in Tasks : st[t] \in {"new", "done"}

====
